---------------------------- MODULE Spec2Model ----------------------------
(***************************************************************************)
(* Aged-receivables engine of snowball-effect: the aging-bucket classifier *)
(* and the ledger aggregator (helper.py), the point-in-time invoice        *)
(* reconciliation, the credit note filter, the paged fetches and the       *)
(* report generation (service.py).                                         *)
(*                                                                         *)
(* A calendar date is a triple <<year, month, day>>; an absent value       *)
(* (Python's None) is NoDate.  Amounts are non-negative integers.          *)
(***************************************************************************)
EXTENDS Integers, Sequences, FiniteSets, TLC

VARIABLES
    report_date,      \* the report date (report_date_obj)
    is_future_date,   \* report_date lies after today
    periods,          \* aging configuration
    period_of,
    period_type,
    show_current,
    item_date,        \* the due / reference date handed to the classifier
    bucket,           \* result of calculate_aging_bucket
    bucket_names,     \* result of generate_bucket_names
    pc,               \* position inside _get_unpaid_invoices / _get_credit_notes
    examined,         \* number of records the running loop has examined
    unpaid_invoices,  \* the Set-A invoices the loop has examined, in order
    invoice,          \* the record the loop examined last
    decision,         \* what the loop decided for it
    all_invoices,     \* the list _get_unpaid_invoices returns
    has_payments_before_report_date,  \* local of the early-paid loop
    filtered_credit_notes,            \* the list _get_credit_notes returns
    report,           \* the ledger (all_report_data): key -> entry
    pending,          \* items not yet handed to process_financial_item
    processed,        \* the items handed to it so far, in call order
    apc,              \* position of the aggregation: "items", "raised", "done"
    fetch_kind,       \* the paged fetch that is running
    last_page,        \* the last page the accounting API holds for it
    page,             \* the page the loop requests next
    fetched,          \* the pages whose records the loop has taken, in order
    failed_pages,     \* the pages whose request raised
    fpc,              \* position of the fetch: "request", "returned", "raised"
    rpc,              \* position inside generate_aged_receivables_report
    report_date_arg,  \* its report_date argument, a string or NoText
    format,           \* its format argument
    connection_data_list,  \* the connections to process
    outcomes,         \* what happened to each connection processed so far
    failed_connections,    \* the failure records
    total_invoices,   \* the counter of invoices
    response_data     \* the dict the call returns

vars == <<report_date, is_future_date, periods, period_of, period_type,
          show_current, item_date, bucket, bucket_names, pc, examined,
          unpaid_invoices, invoice, decision, all_invoices, has_payments_before_report_date,
          filtered_credit_notes, report, pending, processed, apc,
          fetch_kind, last_page, page, fetched, failed_pages, fpc,
          rpc, report_date_arg, format, connection_data_list, outcomes,
          failed_connections, total_invoices, response_data>>

bucketVars == <<periods, period_of, period_type, show_current, item_date,
                bucket, bucket_names>>

reconVars == <<pc, examined, unpaid_invoices, invoice, decision, all_invoices,
               has_payments_before_report_date, filtered_credit_notes>>

ledgerVars == <<report, pending, processed, apc>>

fetchVars == <<fetch_kind, last_page, page, fetched, failed_pages, fpc>>

genVars == <<rpc, report_date_arg, format, connection_data_list, outcomes,
             failed_connections, total_invoices, response_data>>

-----------------------------------------------------------------------------
(* Bounds of the model *)

MaxPeriods == 4
MaxPeriodOf == 2
MaxPayments == 2
MaxAmt == 1
MaxInvoices == 2
MaxAllocations == 2

-----------------------------------------------------------------------------
(* Calendar arithmetic: datetime.date comparison and subtraction *)

NoDate == <<>>

\* no record examined yet
NoRecord == <<>>

\* a local variable that was never assigned
Unbound == "unbound"

\* a Python bool held by a variable that may be unbound
Bool(b) == IF b THEN "True" ELSE "False"

IsLeap(y) == (y % 4 = 0) /\ ((y % 100 # 0) \/ (y % 400 = 0))

DaysInMonth(y, m) ==
    IF m = 2 THEN (IF IsLeap(y) THEN 29 ELSE 28)
    ELSE IF m \in {4, 6, 9, 11} THEN 30 ELSE 31

RECURSIVE DaysBeforeMonth(_, _)
DaysBeforeMonth(y, m) ==
    IF m <= 1 THEN 0 ELSE DaysBeforeMonth(y, m - 1) + DaysInMonth(y, m - 1)

DaysBeforeYear(y) ==
    (y - 1) * 365 + ((y - 1) \div 4) - ((y - 1) \div 100) + ((y - 1) \div 400)

ToOrdinal(d) == DaysBeforeYear(d[1]) + DaysBeforeMonth(d[1], d[2]) + d[3]

\* (a - b).days
DaysBetween(a, b) == ToOrdinal(a) - ToOrdinal(b)

\* a < b, a <= b on dates
DateLT(a, b) ==
    \/ a[1] < b[1]
    \/ a[1] = b[1] /\ a[2] < b[2]
    \/ a[1] = b[1] /\ a[2] = b[2] /\ a[3] < b[3]

DateLE(a, b) == a = b \/ DateLT(a, b)

\* str.lower() on the period types the API documents
Lower(s) ==
    CASE s = "Day" -> "day"
      [] s = "Week" -> "week"
      [] s = "Month" -> "month"
      [] OTHER -> s

-----------------------------------------------------------------------------
(* helper.py: calculate_aging_bucket and generate_bucket_names *)

\* the plural suffix of an f-string bucket name
Plural(n) == IF n > 1 THEN "s" ELSE ""

months_diff_NoDayAdjust(rd, dd) ==
    (rd[1] - dd[1]) * 12 + (rd[2] - dd[2])

months_diff(rd, dd) ==
    LET m == (rd[1] - dd[1]) * 12 + (rd[2] - dd[2])
    IN  IF rd[3] < dd[3] THEN m - 1 ELSE m

\* for i in range(2, periods): if months_diff == i: return ...; return "Older"
RECURSIVE MonthLoop(_, _, _, _)
MonthLoop(i, md, p, pt) ==
    IF i >= p THEN "Older"
    ELSE IF md = i THEN ToString(i) \o " " \o pt \o Plural(i)
    ELSE MonthLoop(i + 1, md, p, pt)

MonthBucket(md, p, pt) ==
    IF md <= 0 THEN "< 1 " \o pt
    ELSE IF md = 1 THEN "1 " \o pt
    ELSE MonthLoop(2, md, p, pt)

days_per_period(po, pt) ==
    IF Lower(pt) = "day" THEN po
    ELSE IF Lower(pt) = "week" THEN po * 7
    ELSE po * 30

\* for i in range(1, periods + 1): if days <= i * days_per_period: return ...
RECURSIVE DayLoop_Strict(_, _, _, _, _)
DayLoop_Strict(i, days, dpp, p, pt) ==
    IF i > p THEN "Older"
    ELSE IF days < i * dpp
         THEN (IF i = 1 THEN "< 1 " \o pt
               ELSE ToString(i - 1) \o " " \o pt \o Plural(i - 1))
    ELSE DayLoop_Strict(i + 1, days, dpp, p, pt)

RECURSIVE DayLoop(_, _, _, _, _)
DayLoop(i, days, dpp, p, pt) ==
    IF i > p THEN "Older"
    ELSE IF days <= i * dpp
         THEN (IF i = 1 THEN "< 1 " \o pt
               ELSE ToString(i - 1) \o " " \o pt \o Plural(i - 1))
    ELSE DayLoop(i + 1, days, dpp, p, pt)

calculate_aging_bucket_MergeCurrent(rd, dd, p, po, pt, sc) ==
    LET days == DaysBetween(rd, dd)
    IN  IF days < 0 THEN (IF sc THEN "Current" ELSE "< 1 " \o pt)
        ELSE IF Lower(pt) = "month" THEN MonthBucket(months_diff(rd, dd), p, pt)
        ELSE DayLoop(1, days, days_per_period(po, pt), p, pt)

calculate_aging_bucket(rd, dd, p, po, pt, sc) ==
    LET days == DaysBetween(rd, dd)
    IN  IF days < 0 THEN "Current"
        ELSE IF Lower(pt) = "month" THEN MonthBucket(months_diff(rd, dd), p, pt)
        ELSE DayLoop(1, days, days_per_period(po, pt), p, pt)

\* for i in range(1, periods + 1): bucket_names.append(...)
RECURSIVE NamesLoop(_, _, _, _)
NamesLoop(i, p, pt, acc) ==
    IF i > p THEN acc
    ELSE NamesLoop(i + 1, p, pt,
             Append(acc, IF i = 1 THEN "< 1 " \o pt
                         ELSE ToString(i - 1) \o " " \o pt \o Plural(i - 1)))

generate_bucket_names_NoCurrent(p, pt, sc) ==
    Append(NamesLoop(1, p, pt, IF sc THEN <<"Current">> ELSE <<>>), "Older")

generate_bucket_names(p, pt, sc) ==
    Append(NamesLoop(1, p, pt, <<"Current">>), "Older")

-----------------------------------------------------------------------------
(* Inputs of the classifier *)

PeriodTypes == {"Day", "Week", "Month"}

ReportDates == {<<2025, 8, 15>>, <<2025, 3, 31>>}

DueDates ==
    {<<2025, 9, 1>>, <<2025, 8, 16>>, <<2025, 8, 15>>, <<2025, 8, 14>>,
     <<2025, 8, 8>>, <<2025, 8, 1>>, <<2025, 7, 25>>, <<2025, 7, 15>>,
     <<2025, 7, 1>>, <<2025, 6, 20>>, <<2025, 6, 15>>, <<2025, 5, 20>>,
     <<2025, 5, 15>>, <<2025, 4, 15>>, <<2025, 4, 1>>, <<2025, 3, 31>>,
     <<2025, 2, 28>>, <<2025, 1, 31>>, <<2024, 12, 31>>, <<2024, 8, 15>>,
     <<2024, 2, 29>>}

NoBucket == ""

IdleRecon ==
    /\ pc = "idle"
    /\ examined = 0
    /\ unpaid_invoices = <<>>
    /\ invoice = NoRecord
    /\ decision = NoRecord
    /\ all_invoices = <<>>
    /\ has_payments_before_report_date = Unbound
    /\ filtered_credit_notes = <<>>

\* an empty ledger, nothing to aggregate
EmptyReport == [k \in {} |-> NoRecord]

\* a string argument, as its characters, and an absent one (Python's None)
Text(chars) == [given |-> TRUE, chars |-> chars]

NoText == [given |-> FALSE, chars |-> <<>>]

\* no fetch running, no report being generated
IdleFetch ==
    /\ fetch_kind = "none"
    /\ last_page = 0
    /\ page = 1
    /\ fetched = <<>>
    /\ failed_pages = {}
    /\ fpc = "idle"

IdleGen ==
    /\ rpc = "idle"
    /\ report_date_arg = NoText
    /\ format = 1
    /\ connection_data_list = <<>>
    /\ outcomes = <<>>
    /\ failed_connections = <<>>
    /\ total_invoices = 0
    /\ response_data = NoRecord

IdleLedger ==
    /\ report = EmptyReport
    /\ pending = {}
    /\ processed = <<>>
    /\ apc = "idle"

IdleBucket ==
    /\ periods = 1
    /\ period_of = 1
    /\ period_type = "Month"
    /\ show_current = TRUE
    /\ item_date = NoDate
    /\ bucket = NoBucket
    /\ bucket_names = <<>>

InitBucket ==
    /\ report_date \in ReportDates
    /\ is_future_date = FALSE
    /\ periods \in 1..MaxPeriods
    /\ period_of \in 1..MaxPeriodOf
    /\ period_type \in PeriodTypes
    /\ show_current \in BOOLEAN
    /\ item_date \in DueDates
    /\ bucket = NoBucket
    /\ bucket_names = <<>>
    /\ IdleRecon
    /\ IdleLedger
    /\ IdleFetch
    /\ IdleGen

\* bucket = calculate_aging_bucket(report_date, item_date, ...)
Classify ==
    /\ bucket = NoBucket
    /\ bucket' = calculate_aging_bucket(report_date, item_date, periods,
                                        period_of, period_type, show_current)
    /\ UNCHANGED <<report_date, is_future_date, periods, period_of,
                   period_type, show_current, item_date, bucket_names>>
    /\ UNCHANGED reconVars
    /\ UNCHANGED ledgerVars
    /\ UNCHANGED fetchVars
    /\ UNCHANGED genVars

\* bucket_names = generate_bucket_names(periods, period_type, show_current)
GenerateNames ==
    /\ bucket_names = <<>>
    /\ bucket_names' = generate_bucket_names(periods, period_type, show_current)
    /\ UNCHANGED <<report_date, is_future_date, periods, period_of,
                   period_type, show_current, item_date, bucket>>
    /\ UNCHANGED reconVars
    /\ UNCHANGED ledgerVars
    /\ UNCHANGED fetchVars
    /\ UNCHANGED genVars

NextBucket == Classify \/ GenerateNames

SpecBucket == InitBucket /\ [][NextBucket]_vars

-----------------------------------------------------------------------------
(* service.py: records returned by the accounting API *)

ReconDate == <<2025, 8, 20>>
PrevMonth == <<2025, 7, 25>>
Before == <<2025, 8, 10>>
After == <<2025, 8, 25>>
NextMonth == <<2025, 9, 10>>
NextYear == <<2026, 8, 25>>

RECURSIVE SeqsUpTo(_, _)
SeqsUpTo(S, n) ==
    IF n = 0 THEN {<<>>}
    ELSE LET shorter == SeqsUpTo(S, n - 1)
         IN  shorter \cup {Append(q, x) : q \in {r \in shorter : Len(r) = n - 1},
                                          x \in S}

\* a payment or allocation record: a date and an amount
Dated == [date : {ReconDate, After}, amount : 0..MaxAmt]

\* a payment of an invoice: as_datetime tells whether its date arrives as a
\* datetime (it has a .date()) or as a plain date
PaymentRecords ==
    [date : {ReconDate, After}, amount : 0..MaxAmt, as_datetime : {TRUE}]

AnyPaymentRecords ==
    [date : {ReconDate, After}, amount : 0..MaxAmt, as_datetime : BOOLEAN]

PaymentLists == SeqsUpTo(PaymentRecords, MaxPayments)

MixedPaymentLists == SeqsUpTo(AnyPaymentRecords, MaxPayments)

AllocationLists == SeqsUpTo(Dated, MaxAllocations)

\* an invoice as the API returns it; total = due + paid + credited
Invoice(st, issued, due, fpod, pays, adue, apaid, upd, cns) ==
    [type |-> "ACCREC", status |-> st, date |-> issued, due_date |-> due,
     fully_paid_on_date |-> fpod, payments |-> pays, amount_due |-> adue,
     amount_paid |-> apaid, total |-> adue + apaid + Len(cns),
     updated_date_utc |-> upd, credit_notes |-> cns,
     total_paid_up_to_report_date |-> <<>>]

StatusOf(adue) == IF adue = 0 THEN "PAID" ELSE "AUTHORISED"

\* Call 1 of a past-date report: Type == "ACCREC" && Date <= report_date
UnpaidCandidates(date_for_xero) ==
    {Invoice(StatusOf(adue), issued, due, fpod, pays, adue, apaid, upd, cns) :
        issued \in {Before, date_for_xero, After},
        due \in {NoDate, date_for_xero, After},
        fpod \in {NoDate, date_for_xero, After},
        pays \in PaymentLists,
        adue \in 0..MaxAmt,
        apaid \in 0..MaxAmt,
        upd \in {date_for_xero, After},
        cns \in {<<>>, <<date_for_xero>>, <<After>>}}

\* Set-A invoices whose payment dates arrive in either form and whose
\* last-modified timestamp may be missing
ResolutionCandidates(date_for_xero) ==
    {Invoice(StatusOf(adue), Before, due, fpod, pays, adue, apaid, upd, <<>>) :
        due \in {NoDate, After},
        fpod \in {NoDate, date_for_xero, After},
        pays \in MixedPaymentLists,
        adue \in 0..MaxAmt,
        apaid \in 0..MaxAmt,
        upd \in {NoDate, date_for_xero, After}}

RECURSIVE SumAmounts(_)
SumAmounts(q) ==
    IF q = <<>> THEN 0 ELSE Head(q).amount + SumAmounts(Tail(q))

\* the records of q dated after d / on or before d
DatedAfter(q, d) == SelectSeq(q, LAMBDA r : DateLT(d, r.date))

DatedUpTo(q, d) == SelectSeq(q, LAMBDA r : DateLE(r.date, d))

\* latest_payment_date: the maximum of the dates of q, NoDate for no record
RECURSIVE LatestDate(_, _)
LatestDate(q, latest) ==
    IF q = <<>> THEN latest
    ELSE LatestDate(Tail(q),
             IF latest = NoDate \/ DateLT(latest, Head(q).date)
             THEN Head(q).date ELSE latest)

\* latest_payment_date of the Set-A loop: a payment whose date is neither a
\* "/Date(...)/" string nor a datetime is passed over
RECURSIVE LatestPaymentDate(_, _)
LatestPaymentDate(q, latest) ==
    IF q = <<>> THEN latest
    ELSE LatestPaymentDate(Tail(q),
             IF Head(q).as_datetime
                /\ (latest = NoDate \/ DateLT(latest, Head(q).date))
             THEN Head(q).date ELSE latest)

\* the entry appended to all_invoices: the invoice with amount_due and
\* is_negative as the loop set them; an invoice appended as it is carries no
\* is_negative, which get_aged_receivables_data reads as False
Item(inv, amt, neg) ==
    [date |-> inv.date, due_date |-> inv.due_date, status |-> inv.status,
     amount_due |-> amt, is_negative |-> neg]

-----------------------------------------------------------------------------
(* _get_unpaid_invoices: the loop over unpaid_invoices (Set A) *)

\* payment_date as resolved at the head of the past-report branch
payment_date(inv, rd) ==
    LET p1 == inv.fully_paid_on_date
        p2 == IF p1 = NoDate /\ inv.payments # <<>>
              THEN LatestPaymentDate(inv.payments, NoDate) ELSE p1
        p3 == IF inv.amount_paid > 0 /\ p2 = NoDate
                 /\ inv.updated_date_utc # NoDate
              THEN inv.updated_date_utc ELSE p2
    IN  IF inv.amount_paid > 0 /\ inv.amount_due = 0 /\ p3 = NoDate
           /\ inv.date # NoDate /\ DateLE(inv.date, rd)
        THEN inv.date ELSE p3

\* Scenario 3: a credit note of the invoice dated after the report date
credit_note_after_report(inv, rd) ==
    \E k \in 1..Len(inv.credit_notes) : DateLT(rd, inv.credit_notes[k])

\* Scenario 6 without amount_due added to the payments after the report date
payments_after_report_NoAmountDue(inv, rd) ==
    IF inv.payments # <<>>
    THEN SumAmounts(DatedAfter(inv.payments, rd))
    ELSE 0

\* Scenario 6: payments_after_report
payments_after_report(inv, rd) ==
    IF inv.payments # <<>>
    THEN SumAmounts(DatedAfter(inv.payments, rd)) + inv.amount_due
    ELSE 0

Excluded(rule) ==
    [include |-> FALSE, is_negative |-> FALSE, report_amount |-> 0,
     rule |-> rule]

Included(rule, neg, amt) ==
    [include |-> TRUE, is_negative |-> neg, report_amount |-> amt,
     rule |-> rule]

\* the if / elif chain of scenarios 1 .. 10
Scenario_SevenBeforeSix(inv, rd) ==
    LET issue == inv.date
        due == inv.due_date
        pd == payment_date(inv, rd)
        issued == issue # NoDate /\ DateLE(issue, rd)
        paidUpTo == pd # NoDate /\ DateLE(pd, rd)
        paidAfter == pd # NoDate /\ DateLT(rd, pd)
        dueAfter == due # NoDate /\ DateLT(rd, due)
        dueUpTo == due # NoDate /\ DateLE(due, rd)
        amountOrTotal == IF inv.amount_due > 0 THEN inv.amount_due
                         ELSE inv.total
    IN  IF issued /\ paidUpTo /\ dueAfter
        THEN (IF inv.amount_due > 0 THEN Included("1", FALSE, inv.amount_due)
              ELSE Excluded("1b"))
        ELSE IF issued /\ paidUpTo /\ dueUpTo /\ inv.amount_due = 0
        THEN Excluded("2")
        ELSE IF issued /\ ~paidUpTo /\ dueAfter
        THEN Included("3", FALSE,
                 IF credit_note_after_report(inv, rd) THEN inv.total
                 ELSE amountOrTotal)
        ELSE IF issue # NoDate /\ DateLT(rd, issue) /\ paidUpTo
                /\ due # NoDate /\ DateLE(rd, due)
        THEN Included("4", TRUE, inv.total)
        ELSE IF issued /\ paidUpTo /\ inv.amount_due = 0
        THEN Excluded("5")
        ELSE IF issued /\ dueUpTo /\ inv.amount_paid > 0 /\ inv.amount_due > 0
        THEN Included("7", FALSE, inv.amount_due)
        ELSE IF issued /\ paidAfter
        THEN Included("6", FALSE,
                 IF payments_after_report(inv, rd) > 0
                 THEN payments_after_report(inv, rd)
                 ELSE IF inv.amount_due = 0 THEN inv.total
                 ELSE inv.amount_due)
        ELSE IF issued /\ ~paidUpTo
        THEN Included("8", FALSE, amountOrTotal)
        ELSE IF issued /\ pd # NoDate /\ pd = rd
        THEN Excluded("9")
        ELSE IF issued /\ paidUpTo
        THEN Excluded("10")
        ELSE Excluded("none")

Scenario(inv, rd) ==
    LET issue == inv.date
        due == inv.due_date
        pd == payment_date(inv, rd)
        issued == issue # NoDate /\ DateLE(issue, rd)
        paidUpTo == pd # NoDate /\ DateLE(pd, rd)
        paidAfter == pd # NoDate /\ DateLT(rd, pd)
        dueAfter == due # NoDate /\ DateLT(rd, due)
        dueUpTo == due # NoDate /\ DateLE(due, rd)
        amountOrTotal == IF inv.amount_due > 0 THEN inv.amount_due
                         ELSE inv.total
    IN  IF issued /\ paidUpTo /\ dueAfter
        THEN (IF inv.amount_due > 0 THEN Included("1", FALSE, inv.amount_due)
              ELSE Excluded("1b"))
        ELSE IF issued /\ paidUpTo /\ dueUpTo /\ inv.amount_due = 0
        THEN Excluded("2")
        ELSE IF issued /\ ~paidUpTo /\ dueAfter
        THEN Included("3", FALSE,
                 IF credit_note_after_report(inv, rd) THEN inv.total
                 ELSE amountOrTotal)
        ELSE IF issue # NoDate /\ DateLT(rd, issue) /\ paidUpTo
                /\ due # NoDate /\ DateLE(rd, due)
        THEN Included("4", TRUE, inv.total)
        ELSE IF issued /\ paidUpTo /\ inv.amount_due = 0
        THEN Excluded("5")
        ELSE IF issued /\ paidAfter
        THEN Included("6", FALSE,
                 IF payments_after_report(inv, rd) > 0
                 THEN payments_after_report(inv, rd)
                 ELSE IF inv.amount_due = 0 THEN inv.total
                 ELSE inv.amount_due)
        ELSE IF issued /\ dueUpTo /\ inv.amount_paid > 0 /\ inv.amount_due > 0
        THEN Included("7", FALSE, inv.amount_due)
        ELSE IF issued /\ ~paidUpTo
        THEN Included("8", FALSE, amountOrTotal)
        ELSE IF issued /\ pd # NoDate /\ pd = rd
        THEN Excluded("9")
        ELSE IF issued /\ paidUpTo
        THEN Excluded("10")
        ELSE Excluded("none")

\* the future-report branch of the loop
FutureInclude(inv, rd) ==
    /\ inv.type = "ACCREC"
    /\ inv.amount_due > 0
    /\ inv.status = "AUTHORISED"
    /\ inv.date # NoDate
    /\ DateLE(inv.date, rd)

\* one pass of `for invoice in unpaid_invoices`
UnpaidStep(inv) ==
    /\ invoice' = inv
    /\ unpaid_invoices' = Append(unpaid_invoices, inv)
    /\ examined' = examined + 1
    /\ IF is_future_date
       THEN /\ decision' = (IF FutureInclude(inv, report_date)
                            THEN Included("future", FALSE, inv.amount_due)
                            ELSE Excluded("future"))
            /\ all_invoices' = (IF FutureInclude(inv, report_date)
                                THEN Append(all_invoices,
                                            Item(inv, inv.amount_due, FALSE))
                                ELSE all_invoices)
       ELSE IF inv.type = "ACCREC" /\ inv.date # NoDate
               /\ DateLE(inv.date, report_date)
       THEN LET d == Scenario(inv, report_date)
            IN  /\ decision' = d
                /\ all_invoices' = (IF d.include
                                    THEN Append(all_invoices,
                                             Item(inv, d.report_amount,
                                                  d.is_negative))
                                    ELSE all_invoices)
       ELSE /\ decision' = Excluded("skipped")
            /\ all_invoices' = all_invoices
    /\ UNCHANGED <<pc, has_payments_before_report_date,
                   filtered_credit_notes, report_date, is_future_date>>
    /\ UNCHANGED bucketVars
    /\ UNCHANGED ledgerVars
    /\ UNCHANGED fetchVars
    /\ UNCHANGED genVars

\* The past-report branch keeps nothing from one pass to the next (every
\* local is assigned before it is read), so one pass stands for each.
LoopUnpaid(candidates, passes) ==
    /\ pc = "unpaid"
    /\ examined < passes
    /\ \E inv \in candidates : UnpaidStep(inv)

\* the end of a loop: on to the next one
EndUnpaid ==
    /\ pc = "unpaid"
    /\ pc' = "paid"
    /\ examined' = 0
    /\ UNCHANGED <<unpaid_invoices, invoice, decision, all_invoices,
                   has_payments_before_report_date, filtered_credit_notes,
                   report_date, is_future_date>>
    /\ UNCHANGED bucketVars
    /\ UNCHANGED ledgerVars
    /\ UNCHANGED fetchVars
    /\ UNCHANGED genVars

EndPaid ==
    /\ pc = "paid"
    /\ pc' = "early"
    /\ examined' = 0
    /\ UNCHANGED <<unpaid_invoices, invoice, decision, all_invoices,
                   has_payments_before_report_date, filtered_credit_notes,
                   report_date, is_future_date>>
    /\ UNCHANGED bucketVars
    /\ UNCHANGED ledgerVars
    /\ UNCHANGED fetchVars
    /\ UNCHANGED genVars

\* return all_invoices
Return ==
    /\ pc = "early"
    /\ pc' = "done"
    /\ UNCHANGED <<examined, unpaid_invoices, invoice, decision, all_invoices,
                   has_payments_before_report_date, filtered_credit_notes,
                   report_date, is_future_date>>
    /\ UNCHANGED bucketVars
    /\ UNCHANGED ledgerVars
    /\ UNCHANGED fetchVars
    /\ UNCHANGED genVars

-----------------------------------------------------------------------------
(* _get_unpaid_invoices: the loops over paid_invoices (Set B) and
   early_paid_invoices (Set C) *)

\* Calls 2 and 3 are made, and their lists filled, only for a past report
FetchedForPast_Always(future) == TRUE

FetchedForPast(future) == ~future

\* Call 2: Status == "PAID" && DueDate > report_date, as the API may answer
PaidCandidates(date_for_xero) ==
    {Invoice(st, issued, due, Before, <<>>, IF st = "PAID" THEN 0 ELSE 1, 1,
             Before, <<>>) :
        st \in {"PAID", "AUTHORISED"},
        issued \in {PrevMonth, Before, date_for_xero, After},
        due \in {NoDate, date_for_xero, After, NextMonth, NextYear}}

PaidInclude_MonthOnly(inv, rd) ==
    /\ inv.type = "ACCREC"
    /\ inv.status = "PAID"
    /\ inv.due_date # NoDate
    /\ DateLT(rd, inv.due_date)
    /\ inv.date # NoDate
    /\ inv.date[2] = inv.due_date[2]
    /\ DateLE(inv.date, rd)

\* the filter of the loop over paid_invoices
PaidInclude(inv, rd) ==
    /\ inv.type = "ACCREC"
    /\ inv.status = "PAID"
    /\ inv.due_date # NoDate
    /\ DateLT(rd, inv.due_date)
    /\ inv.date # NoDate
    /\ inv.date[1] = inv.due_date[1]
    /\ inv.date[2] = inv.due_date[2]
    /\ DateLE(inv.date, rd)

\* one pass of `for invoice in paid_invoices`
LoopPaid(candidates) ==
    /\ pc = "paid"
    /\ FetchedForPast(is_future_date)
    /\ examined < MaxInvoices
    /\ \E inv \in candidates :
        /\ invoice' = inv
        /\ examined' = examined + 1
        /\ decision' = (IF PaidInclude(inv, report_date)
                        THEN Included("setB", FALSE, inv.amount_due)
                        ELSE Excluded("setB"))
        /\ all_invoices' = (IF PaidInclude(inv, report_date)
                            THEN Append(all_invoices,
                                        Item(inv, inv.amount_due, FALSE))
                            ELSE all_invoices)
    /\ UNCHANGED <<pc, unpaid_invoices, has_payments_before_report_date,
                   filtered_credit_notes, report_date, is_future_date>>
    /\ UNCHANGED bucketVars
    /\ UNCHANGED ledgerVars
    /\ UNCHANGED fetchVars
    /\ UNCHANGED genVars

\* Call 3: Date > report_date, statuses PAID and AUTHORISED
EarlyCandidates(date_for_xero) ==
    {Invoice(sp[1], After, due, fpod, pays,
             IF sp[1] = "PAID" THEN 0 ELSE 1, sp[2], After, <<>>) :
        sp \in {<<"PAID", 1>>} \cup ({"AUTHORISED"} \X (0..MaxAmt)),
        due \in {NoDate, Before, date_for_xero, After},
        fpod \in {NoDate, date_for_xero, After},
        pays \in PaymentLists} \cup
    {Invoice("PAID", date_for_xero, After, Before,
             <<[date |-> date_for_xero, amount |-> 1]>>, 0, 1, After, <<>>)}

\* What one pass of `for invoice in early_paid_invoices` computes from the
\* invoice and from has_payments_before_report_date as the pass before left
\* it: hp, the variable after the pass; raises, whether reading it failed
\* (it was never assigned); include, neg, amount, the decision; inv, the
\* invoice as the pass leaves it.
EarlyPass(inv, hp0, rd) ==
    LET issue == inv.date
        due == inv.due_date
        skip == issue = NoDate \/ DateLE(issue, rd)
        paidUpTo == DatedUpTo(inv.payments, rd)
        hp == IF inv.payments # <<>> THEN Bool(paidUpTo # <<>>) ELSE hp0
        found == inv.payments # <<>> /\ paidUpTo # <<>>
        pd == IF found THEN rd ELSE inv.fully_paid_on_date
        inv2 == IF found
                THEN [inv EXCEPT !.total_paid_up_to_report_date =
                                     <<SumAmounts(paidUpTo)>>]
                ELSE inv
        condition1 == pd # NoDate /\ DateLE(pd, rd)
                        /\ due # NoDate /\ DateLE(rd, due)
        reads == inv.status = "AUTHORISED" /\ inv.amount_paid > 0
                   /\ due # NoDate /\ DateLE(rd, due)
        raises == reads /\ hp = Unbound
        condition2 == reads /\ hp = "True"
        include == (condition1 \/ condition2)
                     /\ ~(pd # NoDate /\ DateLT(rd, pd))
    IN  IF skip
        THEN [hp |-> hp0, raises |-> FALSE, include |-> FALSE, neg |-> FALSE,
              amount |-> 0, inv |-> inv]
        ELSE [hp |-> hp, raises |-> raises,
              include |-> ~raises /\ include, neg |-> TRUE,
              amount |-> IF inv2.total_paid_up_to_report_date # <<>>
                         THEN inv2.total_paid_up_to_report_date[1]
                         ELSE inv.total,
              inv |-> inv2]

\* one pass of `for invoice in early_paid_invoices`; an unassigned
\* has_payments_before_report_date ends the call with an exception
LoopEarlyPaid(candidates) ==
    /\ pc = "early"
    /\ FetchedForPast(is_future_date)
    /\ examined < MaxInvoices
    /\ \E inv \in candidates :
        LET r == EarlyPass(inv, has_payments_before_report_date, report_date)
        IN  /\ invoice' = r.inv
            /\ examined' = examined + 1
            /\ has_payments_before_report_date' = r.hp
            /\ pc' = (IF r.raises THEN "raised" ELSE pc)
            /\ decision' = (IF r.include
                            THEN Included("setC", r.neg, r.amount)
                            ELSE Excluded("setC"))
            /\ all_invoices' = (IF r.include
                                THEN Append(all_invoices,
                                            Item(r.inv, r.amount, r.neg))
                                ELSE all_invoices)
    /\ UNCHANGED <<unpaid_invoices, filtered_credit_notes, report_date,
                   is_future_date>>
    /\ UNCHANGED bucketVars
    /\ UNCHANGED ledgerVars
    /\ UNCHANGED fetchVars
    /\ UNCHANGED genVars

-----------------------------------------------------------------------------
(* _get_credit_notes: the filter over all_credit_notes *)

\* a credit note as the API returns it
CreditNote(fpod, pays, allocs, rc) ==
    [fully_paid_on_date |-> fpod, payments |-> pays, allocations |-> allocs,
     remaining_credit |-> rc,
     total |-> rc + SumAmounts(allocs) + SumAmounts(pays)]

CreditCandidates(date_for_xero) ==
    {CreditNote(fpod, pays, allocs, rc) :
        fpod \in {NoDate, date_for_xero, After},
        pays \in PaymentLists,
        allocs \in AllocationLists,
        rc \in 0..MaxAmt}

\* What one pass of the filter decides: include, and cn, the credit note as
\* the pass leaves it (remaining_credit may be overwritten).
CreditPass_AllAllocations(cn, rd) ==
    IF cn.fully_paid_on_date # NoDate
    THEN IF DateLT(rd, cn.fully_paid_on_date)
         THEN [include |-> TRUE,
               cn |-> [cn EXCEPT !.remaining_credit =
                          IF cn.allocations # <<>>
                          THEN SumAmounts(cn.allocations)
                          ELSE cn.total]]
         ELSE [include |-> FALSE, cn |-> cn]
    ELSE IF cn.payments # <<>>
    THEN [include |-> DateLT(rd, LatestDate(cn.payments, NoDate)), cn |-> cn]
    ELSE IF cn.allocations # <<>>
    THEN [include |-> DateLE(LatestDate(cn.allocations, NoDate), rd),
          cn |-> cn]
    ELSE [include |-> TRUE, cn |-> cn]

CreditPass(cn, rd) ==
    IF cn.fully_paid_on_date # NoDate
    THEN IF DateLT(rd, cn.fully_paid_on_date)
         THEN [include |-> TRUE,
               cn |-> [cn EXCEPT !.remaining_credit =
                          IF cn.allocations # <<>>
                          THEN SumAmounts(DatedAfter(cn.allocations, rd))
                          ELSE cn.total]]
         ELSE [include |-> FALSE, cn |-> cn]
    ELSE IF cn.payments # <<>>
    THEN [include |-> DateLT(rd, LatestDate(cn.payments, NoDate)), cn |-> cn]
    ELSE IF cn.allocations # <<>>
    THEN [include |-> DateLE(LatestDate(cn.allocations, NoDate), rd),
          cn |-> cn]
    ELSE [include |-> TRUE, cn |-> cn]

\* One pass of `for credit_note in all_credit_notes`.  The pass keeps nothing
\* for the next one, so one pass stands for each.
FilterCreditNote ==
    /\ pc = "credit"
    /\ examined = 0
    /\ \E cn \in CreditCandidates(report_date) :
        LET r == CreditPass(cn, report_date)
        IN  /\ invoice' = r.cn
            /\ decision' = (IF r.include
                            THEN Included("credit", TRUE,
                                          r.cn.remaining_credit)
                            ELSE Excluded("credit"))
            /\ filtered_credit_notes' =
                   (IF r.include THEN Append(filtered_credit_notes, r.cn)
                    ELSE filtered_credit_notes)
    /\ examined' = examined + 1
    /\ UNCHANGED <<pc, unpaid_invoices, all_invoices,
                   has_payments_before_report_date, report_date,
                   is_future_date>>
    /\ UNCHANGED bucketVars
    /\ UNCHANGED ledgerVars
    /\ UNCHANGED fetchVars
    /\ UNCHANGED genVars

\* return filtered_credit_notes
ReturnCreditNotes ==
    /\ pc = "credit"
    /\ pc' = "done"
    /\ UNCHANGED <<examined, unpaid_invoices, invoice, decision, all_invoices,
                   has_payments_before_report_date, filtered_credit_notes,
                   report_date, is_future_date>>
    /\ UNCHANGED bucketVars
    /\ UNCHANGED ledgerVars
    /\ UNCHANGED fetchVars
    /\ UNCHANGED genVars

InitRecon(start, future) ==
    /\ report_date = ReconDate
    /\ is_future_date \in future
    /\ pc = start
    /\ examined = 0
    /\ unpaid_invoices = <<>>
    /\ invoice = NoRecord
    /\ decision = NoRecord
    /\ all_invoices = <<>>
    /\ has_payments_before_report_date = Unbound
    /\ filtered_credit_notes = <<>>
    /\ IdleBucket
    /\ IdleLedger
    /\ IdleFetch
    /\ IdleGen

InitUnpaid == InitRecon("unpaid", {FALSE})

NextUnpaid ==
    \/ LoopUnpaid(UnpaidCandidates(report_date), 1)
    \/ EndUnpaid
    \/ EndPaid
    \/ Return

SpecUnpaid == InitUnpaid /\ [][NextUnpaid]_vars

\* the same loop over invoices whose payment dates arrive in either form
NextResolution ==
    \/ LoopUnpaid(ResolutionCandidates(report_date), 1)
    \/ EndUnpaid
    \/ EndPaid
    \/ Return

SpecResolution == InitUnpaid /\ [][NextResolution]_vars

InitPaid == InitRecon("paid", {FALSE})

NextPaid ==
    \/ LoopPaid(PaidCandidates(report_date))
    \/ EndPaid
    \/ Return

SpecPaid == InitPaid /\ [][NextPaid]_vars

InitEarlyPaid == InitRecon("early", {FALSE})

NextEarlyPaid ==
    \/ LoopEarlyPaid(EarlyCandidates(report_date))
    \/ Return

SpecEarlyPaid == InitEarlyPaid /\ [][NextEarlyPaid]_vars

\* Both kinds of report over small answers of the three calls
ModeUnpaid ==
    {Invoice(st, issued, After, NoDate, <<>>, adue, 0, ReconDate, <<>>) :
        st \in {"AUTHORISED", "PAID"},
        issued \in {Before, ReconDate, After},
        adue \in 0..MaxAmt}

ModePaid ==
    {Invoice("PAID", Before, due, ReconDate, <<>>, 0, 1, ReconDate, <<>>) :
        due \in {After, NextMonth}}

ModeEarly ==
    {Invoice("PAID", After, NextMonth, fpod, <<>>, 0, 1, ReconDate, <<>>) :
        fpod \in {ReconDate, After}}

InitModes == InitRecon("unpaid", BOOLEAN)

NextModes ==
    \/ LoopUnpaid(ModeUnpaid, MaxInvoices)
    \/ EndUnpaid
    \/ LoopPaid(ModePaid)
    \/ EndPaid
    \/ LoopEarlyPaid(ModeEarly)
    \/ Return

SpecModes == InitModes /\ [][NextModes]_vars

InitCreditNotes == InitRecon("credit", {FALSE})

NextCreditNotes == FilterCreditNote \/ ReturnCreditNotes

SpecCreditNotes == InitCreditNotes /\ [][NextCreditNotes]_vars

-----------------------------------------------------------------------------
(* Properties of the classifier, checked under SpecBucket *)

Classified == bucket # NoBucket

\* the name of interior bucket number n (n = 0 is the "< 1" bucket)
InteriorName(n, pt) ==
    IF n = 0 THEN "< 1 " \o pt
    ELSE IF n = 1 THEN "1 " \o pt
    ELSE ToString(n) \o " " \o pt \o "s"

\* C6: a due date strictly after the report date is classified "Current",
\* whatever periods, period_of, period_type and show_current are.
C6_FutureDueIsCurrent ==
    (Classified /\ DateLT(report_date, item_date)) => bucket = "Current"

C6_Witness ==
    /\ Classified
    /\ DateLT(report_date, item_date)
    /\ period_type = "Week"
    /\ ~show_current
    /\ bucket = "Current"

\* the months elapsed as the specification words it
ClaimedMonthsDiff ==
    (report_date[1] - item_date[1]) * 12 + (report_date[2] - item_date[2])
      - (IF report_date[3] < item_date[3] THEN 1 ELSE 0)

\* C7: month periods, due date on or before the report date: "< 1 Month" for
\* months_diff <= 0, "1 Month" for 1, "{i} Months" for 2 <= i < periods, "Older"
\* otherwise; in particular exactly `periods` months overdue is "Older".
C7_MonthBuckets ==
    (Classified /\ period_type = "Month" /\ DateLE(item_date, report_date)) =>
        /\ bucket = (IF ClaimedMonthsDiff <= 0 THEN "< 1 Month"
                     ELSE IF ClaimedMonthsDiff = 1 THEN "1 Month"
                     ELSE IF ClaimedMonthsDiff < periods
                          THEN ToString(ClaimedMonthsDiff) \o " Months"
                     ELSE "Older")
        /\ (ClaimedMonthsDiff = periods => bucket = "Older")

\* the periods i in 1..periods whose upper edge covers the days elapsed
CoveringPeriods ==
    LET dpp == IF period_type = "Day" THEN period_of ELSE period_of * 7
    IN  {i \in 1..periods : DaysBetween(report_date, item_date) <= i * dpp}

\* C8: day and week periods, due date on or before the report date: the bucket
\* of the least i in 1..periods with days_elapsed <= i * days_per_period
\* ("< 1 T" for i = 1, bucket number i-1 otherwise), "Older" when there is none.
C8_DayWeekBuckets ==
    (Classified /\ period_type \in {"Day", "Week"}
                /\ DateLE(item_date, report_date)) =>
        bucket = (IF CoveringPeriods = {} THEN "Older"
                  ELSE LET i == CHOOSE k \in CoveringPeriods :
                                    \A j \in CoveringPeriods : k <= j
                       IN  InteriorName(i - 1, period_type))

C8_Witness ==
    /\ Classified
    /\ period_type = "Week"
    /\ period_of = 1
    /\ periods >= 3
    /\ DaysBetween(report_date, item_date) = 14
    /\ bucket = "1 Week"

\* C9: generate_bucket_names returns periods + 2 pairwise distinct names:
\* "Current", the interior buckets "< 1 T", "1 T", "2 Ts", ... in order,
\* "Older"; show_current has no influence.
C9_BucketNames ==
    bucket_names # <<>> =>
        /\ Len(bucket_names) = periods + 2
        /\ bucket_names[1] = "Current"
        /\ \A k \in 1..periods :
               bucket_names[k + 1] = InteriorName(k - 1, period_type)
        /\ bucket_names[periods + 2] = "Older"
        /\ \A a, b \in 1..(periods + 2) :
               a # b => bucket_names[a] # bucket_names[b]
        /\ bucket_names =
               generate_bucket_names(periods, period_type, ~show_current)

C9_Witness ==
    /\ bucket_names # <<>>
    /\ periods = 3
    /\ ~show_current
    /\ bucket_names[4] = "2 " \o period_type \o "s"

C10_Inputs ==
    /\ Classified
    /\ report_date = <<2025, 8, 15>>
    /\ item_date = <<2025, 5, 20>>
    /\ periods = 4
    /\ period_type = "Month"

\* C10 as stated: report date 2025-08-15, due date 2025-05-20, periods 4,
\* month periods is classified "3 Months".
C10_Original == C10_Inputs => bucket = "3 Months"

\* C10 as amended: report date 2025-08-15, due date 2025-05-20, periods 4,
\* month periods is classified "2 Months": the day of the report date (15) is
\* before the day of the due date (20), so months_diff is 3 - 1 = 2.
C10_TwoMonths == C10_Inputs => bucket = "2 Months"

C10_Witness == C10_Inputs /\ months_diff(report_date, item_date) = 2

-----------------------------------------------------------------------------
(* Properties of the Set-A reconciliation, checked under SpecUnpaid *)

\* a Set-A invoice of a past-date report has been decided
DecidedSetA ==
    /\ ~is_future_date
    /\ pc = "unpaid"
    /\ examined > 0
    /\ invoice.date # NoDate
    /\ DateLE(invoice.date, report_date)

\* the comparisons the decision table is written in
TblPaidUpTo ==
    LET pd == payment_date(invoice, report_date)
    IN  pd # NoDate /\ DateLE(pd, report_date)

TblPaidAfter ==
    LET pd == payment_date(invoice, report_date)
    IN  pd # NoDate /\ DateLT(report_date, pd)

TblDueAfter ==
    invoice.due_date # NoDate /\ DateLT(report_date, invoice.due_date)

TblDueUpTo ==
    invoice.due_date # NoDate /\ DateLE(invoice.due_date, report_date)

TblPostPayments ==
    {k \in 1..Len(invoice.payments) :
        DateLT(report_date, invoice.payments[k].date)}

RECURSIVE TblSum(_)
TblSum(K) ==
    IF K = {} THEN 0
    ELSE LET k == CHOOSE x \in K : TRUE
         IN  invoice.payments[k].amount + TblSum(K \ {k})

TblAmountOrTotal ==
    IF invoice.amount_due > 0 THEN invoice.amount_due ELSE invoice.total

\* rule 6's amount as the table states it
TblRule6Stated ==
    IF TblPostPayments # {}
    THEN TblSum(TblPostPayments) + invoice.amount_due
    ELSE IF invoice.amount_due = 0 THEN invoice.total
    ELSE invoice.amount_due

\* rule 6's amount with the sum used only when it is positive
TblRule6Positive ==
    IF TblPostPayments # {}
       /\ TblSum(TblPostPayments) + invoice.amount_due > 0
    THEN TblSum(TblPostPayments) + invoice.amount_due
    ELSE IF invoice.amount_due = 0 THEN invoice.total
    ELSE invoice.amount_due

\* the decision table, rules 1, 1b, 2, 3, 4, 5, 6, 7, 8, 9, 10 in order:
\* condition, included, negative, amount
DecisionTable(rule6) ==
    << <<TblPaidUpTo /\ TblDueAfter /\ invoice.amount_due > 0,
         TRUE, FALSE, invoice.amount_due>>,
       <<TblPaidUpTo /\ TblDueAfter /\ invoice.amount_due = 0,
         FALSE, FALSE, 0>>,
       <<TblPaidUpTo /\ TblDueUpTo /\ invoice.amount_due = 0,
         FALSE, FALSE, 0>>,
       <<~TblPaidUpTo /\ TblDueAfter,
         TRUE, FALSE,
         IF \E k \in 1..Len(invoice.credit_notes) :
                DateLT(report_date, invoice.credit_notes[k])
         THEN invoice.total ELSE TblAmountOrTotal>>,
       <<DateLT(report_date, invoice.date) /\ TblPaidUpTo
           /\ invoice.due_date # NoDate
           /\ DateLE(report_date, invoice.due_date),
         TRUE, TRUE, invoice.total>>,
       <<TblPaidUpTo /\ invoice.amount_due = 0,
         FALSE, FALSE, 0>>,
       <<TblPaidAfter,
         TRUE, FALSE, rule6>>,
       <<TblDueUpTo /\ invoice.amount_paid > 0 /\ invoice.amount_due > 0,
         TRUE, FALSE, invoice.amount_due>>,
       <<~TblPaidUpTo,
         TRUE, FALSE, TblAmountOrTotal>>,
       <<payment_date(invoice, report_date) = report_date,
         FALSE, FALSE, 0>>,
       <<TblPaidUpTo,
         FALSE, FALSE, 0>> >>

\* the decision agrees with the first rule of the table that applies
AgreesWithTable(table) ==
    LET hits == {k \in 1..Len(table) : table[k][1]}
    IN  IF hits = {} THEN ~decision.include
        ELSE LET first == CHOOSE k \in hits : \A j \in hits : k <= j
             IN  /\ decision.include = table[first][2]
                 /\ decision.include =>
                        /\ decision.is_negative = table[first][3]
                        /\ decision.report_amount = table[first][4]

-----------------------------------------------------------------------------
(* Properties of the Set-C filter, checked under SpecEarlyPaid *)

\* the early-paid loop has just examined an invoice issued after the report date
DecidedSetC ==
    /\ ~is_future_date
    /\ pc = "early"
    /\ examined > 0
    /\ invoice.date # NoDate
    /\ DateLT(report_date, invoice.date)

\* the payments of the examined invoice dated on or before the report date
PaymentsUpToReport ==
    {k \in 1..Len(invoice.payments) :
        DateLE(invoice.payments[k].date, report_date)}

\* payment evidence on or before the report date: the completion date, a
\* payment record, or a positive sum of payment records
PaymentEvidence ==
    \/ /\ invoice.fully_paid_on_date # NoDate
       /\ DateLE(invoice.fully_paid_on_date, report_date)
    \/ PaymentsUpToReport # {}
    \/ TblSum(PaymentsUpToReport) > 0

\* C2: an invoice issued after the report date is included only with payment
\* evidence on or before the report date and a due date on or after it; it is
\* then negative, for the sum of the payments dated up to the report date if
\* there are any, else for the invoice total.
C2_EarlyPaidOnlyWithEvidence ==
    (DecidedSetC /\ decision.include) =>
        /\ PaymentEvidence
        /\ invoice.due_date # NoDate
        /\ DateLE(report_date, invoice.due_date)
        /\ decision.is_negative
        /\ decision.report_amount =
               (IF PaymentsUpToReport # {} THEN TblSum(PaymentsUpToReport)
                ELSE invoice.total)

-----------------------------------------------------------------------------
(* Properties of the future-date report, checked under SpecModes *)

\* the Set-A invoices a future-date report keeps
KeptForFuture ==
    SelectSeq(unpaid_invoices,
              LAMBDA inv : /\ inv.status = "AUTHORISED"
                           /\ inv.amount_due > 0
                           /\ DateLE(inv.date, report_date))

\* C3: for a future-date report the returned list holds exactly the Set-A
\* invoices that are AUTHORISED, with amount_due > 0, issued on or before
\* the report date, each with its amount_due and positive sign; nothing of
\* Set B or Set C is added.
C3_FutureReport ==
    is_future_date =>
        /\ Len(all_invoices) = Len(KeptForFuture)
        /\ \A k \in 1..Len(all_invoices) :
               /\ all_invoices[k].date = KeptForFuture[k].date
               /\ all_invoices[k].due_date = KeptForFuture[k].due_date
               /\ all_invoices[k].status = KeptForFuture[k].status
               /\ all_invoices[k].amount_due = KeptForFuture[k].amount_due
               /\ ~all_invoices[k].is_negative

C3_Witness ==
    /\ is_future_date
    /\ pc = "done"
    /\ Len(unpaid_invoices) = 2
    /\ Len(all_invoices) = 1
    /\ unpaid_invoices[1].status = "PAID"
    /\ all_invoices[1].amount_due = unpaid_invoices[2].amount_due

-----------------------------------------------------------------------------
(* Properties of the Set-B filter, checked under SpecPaid *)

SetBConditions(issued, due) ==
    /\ due # NoDate
    /\ issued # NoDate
    /\ DateLT(report_date, due)
    /\ issued[1] = due[1]
    /\ issued[2] = due[2]
    /\ DateLE(issued, report_date)

\* C4: a Set-B invoice is added to the list only if its due date is strictly
\* after the report date, issue and due date are in the same calendar month
\* and year, and the issue date is on or before the report date.
C4_PaidFilter ==
    /\ \A k \in 1..Len(all_invoices) :
           SetBConditions(all_invoices[k].date, all_invoices[k].due_date)
    /\ (pc = "paid" /\ examined > 0 /\ decision.include) =>
           SetBConditions(invoice.date, invoice.due_date)

C4_Witness ==
    /\ pc = "paid"
    /\ Len(all_invoices) = 2
    /\ all_invoices[1].date = ReconDate
    /\ all_invoices[2].date = Before
    /\ decision.include

-----------------------------------------------------------------------------
(* Properties of the credit-note filter, checked under SpecCreditNotes *)

CreditExamined == pc = "credit" /\ examined > 0

CnAllocationsAfter ==
    {k \in 1..Len(invoice.allocations) :
        DateLT(report_date, invoice.allocations[k].date)}

RECURSIVE CnAllocSum(_)
CnAllocSum(K) ==
    IF K = {} THEN 0
    ELSE LET k == CHOOSE x \in K : TRUE
         IN  invoice.allocations[k].amount + CnAllocSum(K \ {k})

\* (a) completed after the report date
CnCaseA ==
    /\ invoice.fully_paid_on_date # NoDate
    /\ DateLT(report_date, invoice.fully_paid_on_date)

\* (b) no completion date, latest payment after the report date
CnCaseB ==
    /\ invoice.fully_paid_on_date = NoDate
    /\ \E k \in 1..Len(invoice.payments) :
           DateLT(report_date, invoice.payments[k].date)

\* (c) no completion date, no payments, latest allocation up to the report date
CnCaseC ==
    /\ invoice.fully_paid_on_date = NoDate
    /\ invoice.payments = <<>>
    /\ invoice.allocations # <<>>
    /\ \A k \in 1..Len(invoice.allocations) :
           DateLE(invoice.allocations[k].date, report_date)

\* (d) no completion date, no payments, no allocations
CnCaseD ==
    /\ invoice.fully_paid_on_date = NoDate
    /\ invoice.payments = <<>>
    /\ invoice.allocations = <<>>

\* C5: a credit note is included exactly in the cases (a), (b), (c), (d); in
\* case (a) its reported amount is the sum of its allocations dated after
\* the report date, or its total if it has no allocations.
C5_CreditNoteFilter ==
    CreditExamined =>
        /\ decision.include <=> (CnCaseA \/ CnCaseB \/ CnCaseC \/ CnCaseD)
        /\ decision.include =>
               filtered_credit_notes[Len(filtered_credit_notes)] = invoice
        /\ ~decision.include => filtered_credit_notes = <<>>
        /\ CnCaseA =>
               invoice.remaining_credit =
                   (IF invoice.allocations = <<>> THEN invoice.total
                    ELSE CnAllocSum(CnAllocationsAfter))

C5_Witness ==
    /\ CreditExamined
    /\ CnCaseA
    /\ Len(invoice.allocations) = 2
    /\ Cardinality(CnAllocationsAfter) = 1
    /\ invoice.remaining_credit = 1
    /\ invoice.total > 1
    /\ filtered_credit_notes = <<invoice>>

-----------------------------------------------------------------------------
(* helper.py: process_financial_item, the ledger aggregator *)

MaxItems == 3

\* a missing or empty display number, a missing id (Python's None)
NoNumber == ""
NoId == ""

MonthAgo == <<2025, 7, 15>>

\* an item dict as get_aged_receivables_data builds it; amount stands for
\* the field named by amount_field, date for the one named by date_field
FinancialItem(type, number, id, contact, amount, date, neg) ==
    [item_type |-> type, number |-> number, item_id |-> id,
     contact |-> contact, amount |-> amount, date |-> date,
     is_negative |-> neg, status |-> "AUTHORISED"]

ItemPool ==
    {FinancialItem("invoice", "INV-1", "i1", "Acme", 1, After, FALSE),
     FinancialItem("invoice", "INV-2", "i2", "Acme", 2, MonthAgo, FALSE),
     FinancialItem("invoice", NoNumber, "i3", "Acme", 1, Before, FALSE),
     FinancialItem("invoice", "INV-4", "i4", "Zed", 0, Before, FALSE),
     FinancialItem("invoice", "INV-5", "i5", "Acme", 1, After, TRUE),
     FinancialItem("invoice", "INV-6", "i6", "Zed", -1, ReconDate, FALSE),
     FinancialItem("credit_note", "CN-1", "c1", "Acme", 1, Before, TRUE),
     FinancialItem("overpayment", NoNumber, "o1", "Zed", 1, NoDate, TRUE),
     FinancialItem("bank_transaction", NoNumber, "b1", "Zed", 0, Before, TRUE),
     FinancialItem("bank_transaction", NoNumber, "b2", "Zed", 1, MonthAgo, TRUE)}

\* the elements of a list, as a set
Range(q) == {q[k] : k \in 1..Len(q)}

\* key = f"{business_type}|{connection_name}|{contact_name}", or the contact
\* name alone when either of the two is missing
LedgerKey(business_type, connection_name, contact_name) ==
    IF connection_name # "" /\ business_type # ""
    THEN business_type \o "|" \o connection_name \o "|" \o contact_name
    ELSE contact_name

\* a fresh ledger entry: every bucket at 0 with an empty item list
NewEntry(business_type, connection_name, contact_name, names) ==
    [business_unit |-> IF business_type = "" THEN "Unknown" ELSE business_type,
     company |-> IF connection_name = "" THEN "Unknown" ELSE connection_name,
     contact |-> contact_name,
     amounts |-> [n \in Range(names) |-> 0],
     invoice_details |-> [n \in Range(names) |-> <<>>]]

\* item_number, item_id as extracted for the item type
ItemNumber(item, item_type) ==
    IF item_type \in {"invoice", "credit_note"} THEN item.number
    ELSE IF item_type = "bank_transaction" THEN item.item_id
    ELSE "Unknown"

ItemId(item, item_type) ==
    IF item_type \in {"invoice", "credit_note", "bank_transaction"}
    THEN item.item_id
    ELSE NoId

\* the date the item is aged by: its date, else date_fallback
ItemDate(item, date_fallback) ==
    IF item.date = NoDate THEN date_fallback ELSE item.date

\* the record appended to invoice_details[bucket]
ItemDetail(item, is_negative, item_type) ==
    [item_number |-> ItemNumber(item, item_type),
     item_id |-> ItemId(item, item_type),
     amount |-> IF is_negative THEN -item.amount ELSE item.amount,
     is_negative |-> is_negative,
     status |-> IF item_type \in {"invoice", "credit_note", "bank_transaction"}
                THEN item.status ELSE "",
     item_type |-> item_type]

\* the guard letting an amount of 0 through
Discarded_NegativeOnly(item, item_type) ==
    item.amount < 0 /\ item_type # "bank_transaction"

\* the amount <= 0 guard at the head of process_financial_item
Discarded(item, item_type) ==
    item.amount <= 0 /\ item_type # "bank_transaction"

\* the call without the amount <= 0 guard at its head
process_financial_item_NoDiscard(item, rd, p, po, pt, names, rep, is_negative, connection_name, business_type, item_type, sc) ==
    LET b == calculate_aging_bucket(rd, ItemDate(item, rd), p, po, pt, sc)
        key == LedgerKey(business_type, connection_name, item.contact)
        r1 == IF key \in DOMAIN rep THEN rep
              ELSE [k \in DOMAIN rep \cup {key} |->
                       IF k = key
                       THEN NewEntry(business_type, connection_name,
                                     item.contact, names)
                       ELSE rep[k]]
        signed == IF is_negative THEN -item.amount ELSE item.amount
    IN  IF b \notin Range(names) THEN [report |-> r1, raises |-> TRUE]
        ELSE [report |-> [r1 EXCEPT ![key].amounts[b] = @ + signed],
              raises |-> FALSE]

\* What one call does to the ledger: report, the ledger after the call, and
\* raises, whether report[key][bucket] failed with a KeyError (the entry
\* has been created by then).
process_financial_item(item, rd, p, po, pt, names, rep, is_negative, connection_name, business_type, item_type, sc) ==
    IF Discarded(item, item_type) THEN [report |-> rep, raises |-> FALSE]
    ELSE
    LET b == calculate_aging_bucket(rd, ItemDate(item, rd), p, po, pt, sc)
        key == LedgerKey(business_type, connection_name, item.contact)
        r1 == IF key \in DOMAIN rep THEN rep
              ELSE [k \in DOMAIN rep \cup {key} |->
                       IF k = key
                       THEN NewEntry(business_type, connection_name,
                                     item.contact, names)
                       ELSE rep[k]]
        signed == IF is_negative THEN -item.amount ELSE item.amount
        added == [r1[key].amounts EXCEPT ![b] = @ + signed]
        listed == IF ItemNumber(item, item_type) # NoNumber
                  THEN [r1[key].invoice_details EXCEPT
                           ![b] = Append(@, ItemDetail(item, is_negative,
                                                       item_type))]
                  ELSE r1[key].invoice_details
    IN  IF b \notin Range(names) THEN [report |-> r1, raises |-> TRUE]
        ELSE [report |-> [r1 EXCEPT ![key] =
                             [@ EXCEPT !.amounts = added,
                                       !.invoice_details = listed]],
              raises |-> FALSE]

\* the connection the items of the ledger specification belong to
TenantName == "Snowball"
BusinessType == "Retail"

InitLedger ==
    /\ report_date = ReconDate
    /\ is_future_date = FALSE
    /\ periods \in 1..MaxPeriods
    /\ period_of = 1
    /\ period_type \in PeriodTypes
    /\ show_current \in BOOLEAN
    /\ item_date = NoDate
    /\ bucket = NoBucket
    /\ bucket_names = generate_bucket_names(periods, period_type, show_current)
    /\ IdleRecon
    /\ report = EmptyReport
    /\ pending \in {S \in SUBSET ItemPool : Cardinality(S) <= MaxItems}
    /\ processed = <<>>
    /\ apc = "items"
    /\ IdleFetch
    /\ IdleGen

\* one call of process_financial_item, on any item still pending; a raise
\* leaves the loops of the connection
ProcessItem ==
    /\ apc = "items"
    /\ \E item \in pending :
        LET r == process_financial_item(item, report_date, periods, period_of,
                     period_type, bucket_names, report, item.is_negative,
                     TenantName, BusinessType, item.item_type, show_current)
        IN  /\ report' = r.report
            /\ apc' = IF r.raises THEN "raised" ELSE "items"
            /\ pending' = pending \ {item}
            /\ processed' = Append(processed, item)
            /\ item_date' = ItemDate(item, report_date)
            /\ bucket' = calculate_aging_bucket(report_date,
                             ItemDate(item, report_date), periods, period_of,
                             period_type, show_current)
    /\ UNCHANGED <<report_date, is_future_date, periods, period_of,
                   period_type, show_current, bucket_names>>
    /\ UNCHANGED reconVars
    /\ UNCHANGED fetchVars
    /\ UNCHANGED genVars

\* the loops over the items have ended
EndItems ==
    /\ apc = "items"
    /\ pending = {}
    /\ apc' = "done"
    /\ UNCHANGED <<report, pending, processed, report_date, is_future_date>>
    /\ UNCHANGED bucketVars
    /\ UNCHANGED reconVars
    /\ UNCHANGED fetchVars
    /\ UNCHANGED genVars

NextLedger == ProcessItem \/ EndItems

SpecLedger == InitLedger /\ [][NextLedger]_vars

-----------------------------------------------------------------------------
(* Properties of the ledger aggregator, checked under SpecLedger *)

\* the bucket process_financial_item ages the item into
BucketOf(item) ==
    calculate_aging_bucket(report_date, ItemDate(item, report_date), periods,
                           period_of, period_type, show_current)

KeyOf(item) == LedgerKey(BusinessType, TenantName, item.contact)

\* the item was handed over and changed a bucket amount
ChangedAmount(item) ==
    /\ item \in Range(processed)
    /\ ~Discarded(item, item.item_type)
    /\ item.amount # 0
    /\ BucketOf(item) \in Range(bucket_names)

RECURSIVE SumDetails(_)
SumDetails(q) ==
    IF q = <<>> THEN 0 ELSE Head(q).amount + SumDetails(Tail(q))

\* how often the item is listed in bucket n of its entry
ListedIn(rep, item, n) ==
    Cardinality({k \in 1..Len(rep[KeyOf(item)].invoice_details[n]) :
        rep[KeyOf(item)].invoice_details[n][k] =
            ItemDetail(item, item.is_negative, item.item_type)})

Listed(item, n) == ListedIn(report, item, n)

\* C11: every item that changed a bucket amount is listed exactly once, in
\* exactly one bucket of its entry, and every bucket amount is the sum of
\* the signed amounts of the items listed for the bucket.
C11_LedgerReconciles ==
    /\ \A key \in DOMAIN report : \A n \in Range(bucket_names) :
           report[key].amounts[n] = SumDetails(report[key].invoice_details[n])
    /\ \A item \in ItemPool :
           ChangedAmount(item) =>
               /\ Listed(item, BucketOf(item)) = 1
               /\ \A n \in Range(bucket_names) \ {BucketOf(item)} :
                      Listed(item, n) = 0

\* the items of the run, handed over or not
AllItems == Range(processed) \cup pending

\* the ledger one fixed order of the calls produces
RECURSIVE AggregateAll(_, _)
AggregateAll(S, rep) ==
    IF S = {} THEN rep
    ELSE LET item == CHOOSE x \in S : TRUE
             r == process_financial_item(item, report_date, periods,
                      period_of, period_type, bucket_names, rep,
                      item.is_negative, TenantName, BusinessType,
                      item.item_type, show_current)
         IN  IF r.raises THEN r.report
             ELSE AggregateAll(S \ {item}, r.report)

\* the listed items of a bucket, as a set (item ids are distinct)
ListedSet(rep, key, n) == Range(rep[key].invoice_details[n])

SameLedger(r1, r2) ==
    /\ DOMAIN r1 = DOMAIN r2
    /\ \A key \in DOMAIN r1 : \A n \in Range(bucket_names) :
           /\ r1[key].amounts[n] = r2[key].amounts[n]
           /\ Len(r1[key].invoice_details[n]) = Len(r2[key].invoice_details[n])
           /\ ListedSet(r1, key, n) = ListedSet(r2, key, n)

\* C12: whatever the order of the calls, the aggregation of a collection of
\* items ends with the same bucket amounts for every key and the same items
\* in every bucket's list.
C12_OrderIndependent ==
    apc \in {"done", "raised"} =>
        SameLedger(report, AggregateAll(AllItems, EmptyReport))

\* C18: a call with an item whose amount is <= 0 leaves the report as it
\* was, unless the item is a bank transaction, which still contributes.
C18_DiscardsNonPositive ==
    [][(processed' # processed) =>
          LET item == processed'[Len(processed')]
          IN  /\ Discarded(item, item.item_type) =>
                    report' = report /\ apc' = "items"
              /\ (item.amount <= 0 /\ item.item_type = "bank_transaction"
                    /\ apc' = "items") =>
                    /\ KeyOf(item) \in DOMAIN report'
                    /\ ListedIn(report', item, BucketOf(item)) = 1]_vars

C18_Witness ==
    /\ Len(processed) = 3
    /\ processed[1].item_id = "i2"
    /\ processed[2].item_id = "i4"
    /\ processed[3].item_id = "b1"
    /\ apc = "items"
    /\ DOMAIN report = {KeyOf(processed[1]), KeyOf(processed[3])}

-----------------------------------------------------------------------------
(* Properties of the payment-date resolution, checked under SpecUnpaid *)

\* the latest date among the payment records of the examined invoice
TblLatestPayment ==
    LET dates == {invoice.payments[k].date : k \in 1..Len(invoice.payments)}
    IN  IF dates = {} THEN NoDate
        ELSE CHOOSE d \in dates : \A e \in dates : DateLE(e, d)

\* the priority order as stated
TblPaymentDate ==
    IF invoice.fully_paid_on_date # NoDate THEN invoice.fully_paid_on_date
    ELSE IF TblLatestPayment # NoDate THEN TblLatestPayment
    ELSE IF invoice.amount_paid > 0 /\ invoice.updated_date_utc # NoDate
         THEN invoice.updated_date_utc
    ELSE IF invoice.amount_paid > 0 /\ invoice.amount_due = 0
            /\ DateLE(invoice.date, report_date)
         THEN invoice.date
    ELSE NoDate

\* C16: the resolved payment_date of a Set-A invoice is the completion date
\* if present, else the latest date among the payment records, else the
\* last-modified timestamp if amount_paid > 0, else the issue date if
\* amount_paid > 0, amount_due = 0 and issue date <= report date, else
\* absent.
C16_PaymentDatePriority ==
    DecidedSetA => payment_date(invoice, report_date) = TblPaymentDate

-----------------------------------------------------------------------------
(* service.py: the invoices _get_unpaid_invoices returns, aggregated *)

\* the dicts get_aged_receivables_data builds from the returned invoices
RECURSIVE ToFinancialItems(_, _)
ToFinancialItems(invs, k) ==
    IF k > Len(invs) THEN <<>>
    ELSE <<[FinancialItem("invoice", "INV-" \o ToString(k),
                          "inv" \o ToString(k), "Acme", invs[k].amount_due,
                          invs[k].due_date, invs[k].is_negative)
               EXCEPT !.status = invs[k].status]>>
         \o ToFinancialItems(invs, k + 1)

\* the entries generate_aged_receivables_report creates for the contacts of
\* the invoices before it processes them
RECURSIVE WithContactEntries(_, _, _)
WithContactEntries(rep, contacts, names) ==
    IF contacts = {} THEN rep
    ELSE LET c == CHOOSE x \in contacts : TRUE
             key == BusinessType \o "|" \o TenantName \o "|" \o c
             r1 == IF key \in DOMAIN rep THEN rep
                   ELSE [k \in DOMAIN rep \cup {key} |->
                            IF k = key
                            THEN NewEntry(BusinessType, TenantName, c, names)
                            ELSE rep[k]]
         IN  WithContactEntries(r1, contacts \ {c}, names)

\* the calls of process_financial_item over a list, in order, up to the
\* first one that raises: the ledger, whether a call raised, the items
\* handed over
RECURSIVE AggregateSeq(_, _, _, _, _, _, _, _)
AggregateSeq(q, rep, done, rd, p, po, pt, sc) ==
    IF q = <<>> THEN [report |-> rep, raises |-> FALSE, processed |-> done]
    ELSE LET item == Head(q)
             r == process_financial_item(item, rd, p, po, pt,
                      generate_bucket_names(p, pt, sc), rep, item.is_negative,
                      TenantName, BusinessType, item.item_type, sc)
         IN  IF r.raises
             THEN [report |-> r.report, raises |-> TRUE,
                   processed |-> Append(done, item)]
             ELSE AggregateSeq(Tail(q), r.report, Append(done, item), rd, p,
                               po, pt, sc)

\* the invoice loops of generate_aged_receivables_report over the list
\* _get_unpaid_invoices returned
ProcessInvoices ==
    /\ pc = "done"
    /\ apc = "idle"
    /\ LET items == ToFinancialItems(all_invoices, 1)
           r == AggregateSeq(items,
                    WithContactEntries(report,
                        {items[k].contact : k \in 1..Len(items)},
                        bucket_names),
                    <<>>, report_date, periods, period_of, period_type,
                    show_current)
       IN  /\ report' = r.report
           /\ processed' = r.processed
           /\ apc' = IF r.raises THEN "raised" ELSE "done"
    /\ UNCHANGED <<pending, report_date, is_future_date>>
    /\ UNCHANGED bucketVars
    /\ UNCHANGED reconVars
    /\ UNCHANGED fetchVars
    /\ UNCHANGED genVars

\* early-paid invoices as the third call may return them
AgedEarlyCandidates(date_for_xero) ==
    {Invoice("PAID", After, due, fpod, pays, 0, 1, After, <<>>) :
        due \in {date_for_xero, After, NextMonth, NextYear},
        fpod \in {NoDate, date_for_xero},
        pays \in {<<>>, <<[date |-> date_for_xero, amount |-> 1,
                          as_datetime |-> TRUE]>>}}

InitEarlyLedger ==
    /\ report_date = ReconDate
    /\ is_future_date = FALSE
    /\ periods \in 1..MaxPeriods
    /\ period_of \in 1..MaxPeriodOf
    /\ period_type \in PeriodTypes
    /\ show_current \in BOOLEAN
    /\ item_date = NoDate
    /\ bucket = NoBucket
    /\ bucket_names = generate_bucket_names(periods, period_type, show_current)
    /\ pc = "early"
    /\ examined = 0
    /\ unpaid_invoices = <<>>
    /\ invoice = NoRecord
    /\ decision = NoRecord
    /\ all_invoices = <<>>
    /\ has_payments_before_report_date = Unbound
    /\ filtered_credit_notes = <<>>
    /\ IdleLedger
    /\ IdleFetch
    /\ IdleGen

NextEarlyLedger ==
    \/ LoopEarlyPaid(AgedEarlyCandidates(report_date))
    \/ Return
    \/ ProcessInvoices

SpecEarlyLedger == InitEarlyLedger /\ [][NextEarlyLedger]_vars

-----------------------------------------------------------------------------
(* Properties of the early-paid invoices in the ledger, checked under *)
(* SpecEarlyLedger *)

\* C17: every invoice the Set-C filter included is aged into "Current",
\* whatever its due date on or after the report date and whatever the aging
\* configuration: no other bucket of the ledger receives an amount or an
\* item.
C17_EarlyPaidIsCurrent ==
    apc = "done" =>
        \A key \in DOMAIN report : \A n \in Range(bucket_names) \ {"Current"} :
            /\ report[key].amounts[n] = 0
            /\ report[key].invoice_details[n] = <<>>

-----------------------------------------------------------------------------
(* Frame of the reconciliation, checked under SpecEarlyPaid *)

\* C19: reconciliation neither modifies a field of an input record nor adds
\* one: the record the early-paid loop has examined is as the call returned
\* it, without a total_paid_up_to_report_date of its own.
C19_InputsUntouched ==
    (examined > 0 /\ invoice # NoRecord) =>
        invoice.total_paid_up_to_report_date = <<>>

(***************************************************************************)
(* The paged fetches of get_aged_receivables_data: Set A (unpaid), Set B   *)
(* (paid), Set C (early paid), the credit notes and the overpayments.      *)
(* Each loop requests page 1, 2, ... of 1000 records and stops at an empty *)
(* or a short page.  The accounting API holds last_page pages: the pages   *)
(* before it are full, it is short and not empty, the pages after it are   *)
(* empty.  A request may raise (rate limit, network, token).               *)
(***************************************************************************)
MaxPages == 3

MaxFailures == 2

\* the safety limit of the Set B and Set C loops
SafetyLimit == 100

FetchKinds == {"unpaid", "paid", "early_paid", "credit_notes", "overpayments"}

\* what the API answers for a page: "full", "short" or "empty"
ServerPage(last, p) ==
    IF p < last THEN "full" ELSE IF p = last THEN "short" ELSE "empty"

\* the result set of the query: every page the API holds
CompleteSet(last) == [p \in 1..last |-> p]

\* what each loop does when the request of a page raises
OnRequestError(kind) ==
    CASE kind = "unpaid" -> "next_page"
      [] kind \in {"paid", "early_paid", "credit_notes"} -> "break"
      [] OTHER -> "raise"

InitPagedFetch ==
    /\ report_date = ReconDate
    /\ is_future_date = FALSE
    /\ IdleBucket
    /\ IdleRecon
    /\ IdleLedger
    /\ IdleGen
    /\ fetch_kind \in FetchKinds
    /\ last_page \in 0..MaxPages
    /\ page = 1
    /\ fetched = <<>>
    /\ failed_pages = {}
    /\ fpc = "request"

\* one pass of the loop whose request is answered
RequestPage ==
    /\ fpc = "request"
    /\ LET answer == ServerPage(last_page, page)
       IN  /\ fetched' = IF answer = "empty" THEN fetched
                         ELSE Append(fetched, page)
           /\ IF \/ answer \in {"empty", "short"}
                 \/ /\ fetch_kind \in {"paid", "early_paid"}
                    /\ page >= SafetyLimit
              THEN /\ fpc' = "returned"
                   /\ page' = page
              ELSE /\ fpc' = "request"
                   /\ page' = page + 1
    /\ UNCHANGED <<fetch_kind, last_page, failed_pages>>
    /\ UNCHANGED <<report_date, is_future_date>>
    /\ UNCHANGED bucketVars
    /\ UNCHANGED reconVars
    /\ UNCHANGED ledgerVars
    /\ UNCHANGED genVars

\* one pass of the loop whose request raises
RequestFails ==
    /\ fpc = "request"
    /\ Cardinality(failed_pages) < MaxFailures
    /\ failed_pages' = failed_pages \cup {page}
    /\ LET handling == OnRequestError(fetch_kind)
       IN  /\ fpc' = CASE handling = "next_page" -> "request"
                       [] handling = "break" -> "returned"
                       [] OTHER -> "raised"
           /\ page' = IF handling = "next_page" THEN page + 1 ELSE page
    /\ UNCHANGED <<fetch_kind, last_page, fetched>>
    /\ UNCHANGED <<report_date, is_future_date>>
    /\ UNCHANGED bucketVars
    /\ UNCHANGED reconVars
    /\ UNCHANGED ledgerVars
    /\ UNCHANGED genVars

NextFetch == RequestPage \/ RequestFails

SpecFetch == InitPagedFetch /\ [][NextFetch]_vars

\* C20: a fetch that ends without raising has taken every page of the
\* result set of its query, each once and in order: nothing is truncated
\* and nothing is skipped.
C20_FetchCompleteOrRaises ==
    fpc = "returned" => fetched = CompleteSet(last_page)

(***************************************************************************)
(* generate_aged_receivables_report: the report date is parsed, the         *)
(* connections are looked up, the bucket names and the cache lifetime are   *)
(* computed, every connection is fetched and aggregated inside its own      *)
(* try / except, and the response is built for the requested format.        *)
(***************************************************************************)
MaxConnections == 2

DigitChars == {"0", "1", "2", "3", "4", "5", "6", "7", "8", "9"}

DigitValue(c) == CHOOSE n \in 0..9 : ToString(n) = c

\* the number a sequence of digits denotes
RECURSIVE Number(_)
Number(q) ==
    IF q = <<>> THEN 0
    ELSE 10 * Number(SubSeq(q, 1, Len(q) - 1)) + DigitValue(q[Len(q)])

AllDigits(q) == \A k \in 1..Len(q) : q[k] \in DigitChars

\* the texts %m accepts: 10..12, 01..09, 1..9
MonthText(q) ==
    /\ AllDigits(q)
    /\ \/ Len(q) = 2 /\ Number(q) \in 1..12
       \/ Len(q) = 1 /\ Number(q) \in 1..9

\* the texts %d accepts: 01..31, 1..9, and a space before 1..9
DayText(q) ==
    \/ AllDigits(q) /\ Len(q) = 2 /\ Number(q) \in 1..31
    \/ AllDigits(q) /\ Len(q) = 1 /\ Number(q) \in 1..9
    \/ Len(q) = 2 /\ q[1] = " " /\ q[2] \in DigitChars \ {"0"}

\* datetime.strptime(text, "%Y-%m-%d").date(); NoDate stands for the
\* exception it raises
Strptime(t) ==
    LET n == Len(t)
        mlen == IF t[7] = "-" THEN 1 ELSE 2
        mtxt == SubSeq(t, 6, 5 + mlen)
        dtxt == SubSeq(t, 7 + mlen, n)
        dnum == IF dtxt[1] = " " THEN Number(Tail(dtxt)) ELSE Number(dtxt)
        y == Number(SubSeq(t, 1, 4))
    IN  IF /\ n >= 8
           /\ AllDigits(SubSeq(t, 1, 4))
           /\ t[5] = "-"
           /\ t[6 + mlen] = "-"
           /\ MonthText(mtxt)
           /\ DayText(dtxt)
           /\ y >= 1
           /\ dnum <= DaysInMonth(y, Number(mtxt))
        THEN <<y, Number(mtxt), dnum>>
        ELSE NoDate

\* Python's truth value of the argument: None and "" are false
Truthy(arg) == arg.given /\ arg.chars # <<>>

\* the day the report runs
Today == ReconDate

\* the head of generate_aged_receivables_report: the date the report is
\* for, or the validation error
parse_report_date(arg) ==
    IF Truthy(arg)
    THEN IF Strptime(arg.chars) = NoDate
         THEN [raises |-> TRUE, date |-> NoDate]
         ELSE [raises |-> FALSE, date |-> Strptime(arg.chars)]
    ELSE [raises |-> FALSE, date |-> Today]

\* calculate_ttl_for_cache(report_date): it parses the argument again, so
\* it raises for an absent and for an empty one
ttl_raises(arg) == ~arg.given \/ Strptime(arg.chars) = NoDate

ReportDateArgs ==
    {NoText,
     Text(<<>>),
     Text(<<"2", "0", "2", "5", "-", "0", "8", "-", "2", "0">>),
     Text(<<"2", "0", "2", "5", "-", "8", "-", "2", "0">>),
     Text(<<"2", "0", "2", "5", "-", "0", "9", "-", "0", "1">>),
     Text(<<"2", "0", "2", "5", "-", "0", "2", "-", "3", "0">>),
     Text(<<"2", "0", "2", "5", "-", "1", "3", "-", "0", "1">>),
     Text(<<"2", "0", "-", "0", "8", "-", "2", "0", "2", "5">>),
     Text(<<"2", "0", "2", "5", "/", "0", "8", "/", "2", "0">>),
     Text(<<"2", "0", "2", "5", "-", "0", "8", "-", "2", "0", "T">>),
     Text(<<"t", "o", "d", "a", "y">>)}

TenantNames == {"Tenant" \o ToString(k) : k \in 1..MaxConnections}

\* the lists the lookup can yield
ConnectionLists ==
    {[k \in 1..n |-> "Tenant" \o ToString(k)] : n \in 0..MaxConnections}

\* the record of a connection_id that is not in the database
NotFound ==
    [connection_id |-> "99", tenant_name |-> "Unknown",
     error |-> "Connection not found"]

\* the record the except clause of the connection loop builds
FailureRecord(conn, error) ==
    [connection_id |-> conn, tenant_name |-> conn, error |-> error]

\* the except clause with its append left out
RecordFailure_Dropped(failed, conn, error) == failed

RecordFailure(failed, conn, error) == Append(failed, FailureRecord(conn, error))

\* the data get_aged_receivables_data can return for a connection:
\* invoices, then credit notes, then overpayments
DataPool ==
    {<<>>,
     <<FinancialItem("invoice", "INV-1", "i1", "Acme", 1, After, FALSE)>>,
     <<FinancialItem("invoice", "INV-2", "i2", "Acme", 2, MonthAgo, FALSE),
       FinancialItem("credit_note", "CN-1", "c1", "Zed", 1, Before, TRUE)>>,
     <<FinancialItem("invoice", "INV-1", "i1", "Acme", 1, After, FALSE),
       FinancialItem("invoice", "INV-2", "i2", "Acme", 2, MonthAgo, FALSE)>>,
     <<FinancialItem("invoice", "INV-1", "i1", "Acme", 1, After, FALSE),
       FinancialItem("invoice", "INV-3", "i7", "Acme", 2, Before, FALSE)>>}

Invoices(data) == SelectSeq(data, LAMBDA i : i.item_type = "invoice")

\* the entries the loop creates for the contacts of a connection's invoices
RECURSIVE EntriesFor(_, _, _, _)
EntriesFor(rep, contacts, names, conn) ==
    IF contacts = {} THEN rep
    ELSE LET c == CHOOSE x \in contacts : TRUE
             key == BusinessType \o "|" \o conn \o "|" \o c
             r1 == IF key \in DOMAIN rep THEN rep
                   ELSE [k \in DOMAIN rep \cup {key} |->
                            IF k = key
                            THEN NewEntry(BusinessType, conn, c, names)
                            ELSE rep[k]]
         IN  EntriesFor(r1, contacts \ {c}, names, conn)

\* the calls of process_financial_item over a connection's items, in order,
\* up to the first one that raises
RECURSIVE AggregateFor(_, _, _, _, _, _, _, _, _)
AggregateFor(q, rep, conn, rd, p, po, pt, sc, names) ==
    IF q = <<>> THEN [report |-> rep, raises |-> FALSE]
    ELSE LET item == Head(q)
             r == process_financial_item(item, rd, p, po, pt, names, rep,
                      item.is_negative, conn, BusinessType, item.item_type,
                      sc)
         IN  IF r.raises THEN [report |-> r.report, raises |-> TRUE]
             ELSE AggregateFor(Tail(q), r.report, conn, rd, p, po, pt, sc,
                               names)

\* data.get(name, 0)
Get(amounts, n) == IF n \in DOMAIN amounts THEN amounts[n] ELSE 0

\* the sum of the amounts of a set of buckets
RECURSIVE SumOver(_, _)
SumOver(amounts, S) ==
    IF S = {} THEN 0
    ELSE LET n == CHOOSE x \in S : TRUE
         IN  Get(amounts, n) + SumOver(amounts, S \ {n})

\* the row keeping a "< 1 Month" column next to the merged Current
RowColumns_KeepBelowOne(names, sc) == Range(names)

\* the bucket columns of a table row: without show_current the "< 1 Month"
\* column is left out, its amount being merged into Current
RowColumns(names, sc) ==
    IF sc THEN Range(names) ELSE Range(names) \ {"< 1 Month"}

\* what the table shows for a bucket of an entry
Shown(amounts, n, sc) ==
    IF n = "Current" /\ ~sc
    THEN Get(amounts, "Current") + Get(amounts, "< 1 Month")
    ELSE Get(amounts, n)

\* one row of table_data
Row(entry, names, sc) ==
    [buckets |-> [n \in RowColumns(names, sc) |-> Shown(entry.amounts, n, sc)],
     Total |-> SumOver(entry.amounts, Range(names))]

\* summary_stats['bucket_totals'][n] after the loop over the entries
RECURSIVE ShownTotal(_, _, _, _)
ShownTotal(rep, keys, n, sc) ==
    IF keys = {} THEN 0
    ELSE LET k == CHOOSE x \in keys : TRUE
         IN  (IF n = "< 1 Month" /\ ~sc THEN 0
              ELSE Shown(rep[k].amounts, n, sc))
               + ShownTotal(rep, keys \ {k}, n, sc)

\* summary_stats['total_outstanding'] after the loop over the entries
RECURSIVE TotalOutstanding(_, _, _)
TotalOutstanding(rep, keys, names) ==
    IF keys = {} THEN 0
    ELSE LET k == CHOOSE x \in keys : TRUE
         IN  SumOver(rep[k].amounts, Range(names))
               + TotalOutstanding(rep, keys \ {k}, names)

\* response_data for format 1 (table) and for any other format (JSON)
TableResponse(rep, names, rd, total, sc) ==
    [format |-> "table",
     data |-> [k \in DOMAIN rep |-> Row(rep[k], names, sc)],
     generated_at |-> rd,
     report_date |-> rd,
     total_invoices |-> total,
     summary |-> [total_outstanding |-> TotalOutstanding(rep, DOMAIN rep, names),
                  contacts_count |-> Cardinality({rep[k].contact : k \in DOMAIN rep}),
                  companies_count |-> Cardinality({rep[k].company : k \in DOMAIN rep}),
                  bucket_totals |-> [n \in Range(names) |->
                                        ShownTotal(rep, DOMAIN rep, n, sc)]]]

JsonResponse(failed, conns, rd, total) ==
    [generated_at |-> rd,
     total_invoices |-> total,
     failed_connections |-> failed,
     connection_summary |->
        [total_connections_attempted |-> Len(conns) + Len(failed),
         successful_connections |-> Len(conns),
         failed_connections_count |-> Len(failed)]]

InitReport ==
    /\ report_date = Today
    /\ is_future_date = FALSE
    /\ periods \in 1..MaxPeriods
    /\ period_of = 1
    /\ period_type \in PeriodTypes
    /\ show_current \in BOOLEAN
    /\ item_date = NoDate
    /\ bucket = NoBucket
    /\ bucket_names = <<>>
    /\ IdleRecon
    /\ IdleLedger
    /\ IdleFetch
    /\ rpc = "parse"
    /\ report_date_arg \in ReportDateArgs
    /\ format \in {0, 1}
    /\ connection_data_list = <<>>
    /\ outcomes = <<>>
    /\ failed_connections = <<>>
    /\ total_invoices = 0
    /\ response_data = NoRecord

\* "Parse report_date or use today"
ParseReportDate ==
    /\ rpc = "parse"
    /\ LET r == parse_report_date(report_date_arg)
       IN  IF r.raises
           THEN /\ rpc' = "raised"
                /\ response_data' = [status_code |-> 400]
                /\ UNCHANGED <<report_date, is_future_date>>
           ELSE /\ rpc' = "lookup"
                /\ report_date' = r.date
                /\ is_future_date' = DateLT(Today, r.date)
                /\ UNCHANGED response_data
    /\ UNCHANGED <<report_date_arg, format, connection_data_list, outcomes,
                   failed_connections, total_invoices>>
    /\ UNCHANGED bucketVars
    /\ UNCHANGED reconVars
    /\ UNCHANGED ledgerVars
    /\ UNCHANGED fetchVars

\* the connections are read from the database; an id that is not there
\* gives a failure record; no connection and no failure is a 404
LookupConnections ==
    /\ rpc = "lookup"
    /\ \E conns \in ConnectionLists, missing \in BOOLEAN :
        IF conns = <<>> /\ ~missing
        THEN /\ rpc' = "raised"
             /\ response_data' = [status_code |-> 404]
             /\ UNCHANGED <<connection_data_list, failed_connections>>
        ELSE /\ rpc' = "prepare"
             /\ connection_data_list' = conns
             /\ failed_connections' = IF missing THEN <<NotFound>> ELSE <<>>
             /\ UNCHANGED response_data
    /\ UNCHANGED <<report_date, is_future_date, report_date_arg, format,
                   outcomes, total_invoices>>
    /\ UNCHANGED bucketVars
    /\ UNCHANGED reconVars
    /\ UNCHANGED ledgerVars
    /\ UNCHANGED fetchVars

\* bucket names, empty ledger, counter, cache lifetime
PrepareRun ==
    /\ rpc = "prepare"
    /\ bucket_names' = generate_bucket_names(periods, period_type, show_current)
    /\ report' = EmptyReport
    /\ total_invoices' = 0
    /\ IF ttl_raises(report_date_arg)
       THEN /\ rpc' = "raised"
            /\ response_data' = [status_code |-> 500]
       ELSE /\ rpc' = "loop"
            /\ UNCHANGED response_data
    /\ UNCHANGED <<report_date, is_future_date, periods, period_of,
                   period_type, show_current, item_date, bucket>>
    /\ UNCHANGED <<pending, processed, apc>>
    /\ UNCHANGED <<report_date_arg, format, connection_data_list, outcomes,
                   failed_connections>>
    /\ UNCHANGED reconVars
    /\ UNCHANGED fetchVars

\* one pass of the loop over connection_data_list: the fetch raises, or it
\* returns data and the items are aggregated up to the first call that
\* raises
ProcessConnection ==
    /\ rpc = "loop"
    /\ Len(outcomes) < Len(connection_data_list)
    /\ LET conn == connection_data_list[Len(outcomes) + 1]
       IN  \/ /\ failed_connections' =
                     RecordFailure(failed_connections, conn, "fetch")
              /\ outcomes' = Append(outcomes,
                     [tenant |-> conn, raised |-> TRUE, items |-> <<>>])
              /\ UNCHANGED <<report, total_invoices>>
           \/ \E data \in DataPool :
                LET r == AggregateFor(data,
                             EntriesFor(report,
                                 {i.contact : i \in Range(Invoices(data))},
                                 bucket_names, conn),
                             conn, report_date, periods, period_of,
                             period_type, show_current, bucket_names)
                IN  /\ total_invoices' = total_invoices + Len(Invoices(data))
                    /\ report' = r.report
                    /\ failed_connections' =
                           IF r.raises
                           THEN RecordFailure(failed_connections, conn,
                                              "KeyError")
                           ELSE failed_connections
                    /\ outcomes' = Append(outcomes,
                           [tenant |-> conn, raised |-> r.raises,
                            items |-> data])
    /\ UNCHANGED <<report_date, is_future_date>>
    /\ UNCHANGED bucketVars
    /\ UNCHANGED <<pending, processed, apc>>
    /\ UNCHANGED <<rpc, report_date_arg, format, connection_data_list,
                   response_data>>
    /\ UNCHANGED reconVars
    /\ UNCHANGED fetchVars

\* the loop has ended: the response for the format, returned
BuildResponse ==
    /\ rpc = "loop"
    /\ Len(outcomes) = Len(connection_data_list)
    /\ response_data' =
           IF format = 1
           THEN TableResponse(report, bucket_names, report_date,
                              total_invoices, show_current)
           ELSE JsonResponse(failed_connections, connection_data_list,
                             report_date, total_invoices)
    /\ rpc' = "returned"
    /\ UNCHANGED <<report_date, is_future_date>>
    /\ UNCHANGED bucketVars
    /\ UNCHANGED ledgerVars
    /\ UNCHANGED <<report_date_arg, format, connection_data_list, outcomes,
                   failed_connections, total_invoices>>
    /\ UNCHANGED reconVars
    /\ UNCHANGED fetchVars

NextReport ==
    \/ ParseReportDate
    \/ LookupConnections
    \/ PrepareRun
    \/ ProcessConnection
    \/ BuildResponse

SpecReport == InitReport /\ [][NextReport]_vars

-----------------------------------------------------------------------------
(* Properties of the report generation, checked under SpecReport *)

\* the ledger lists every item of the outcome that passes the amount guard,
\* under the key of the outcome's connection, in the bucket it ages into
ContributedBy(o) ==
    \A k \in 1..Len(o.items) :
        LET item == o.items[k]
            key == LedgerKey(BusinessType, o.tenant, item.contact)
            b == calculate_aging_bucket(report_date,
                     ItemDate(item, report_date), periods, period_of,
                     period_type, show_current)
        IN  \/ Discarded(item, item.item_type)
            \/ /\ key \in DOMAIN report
               /\ b \in DOMAIN report[key].invoice_details
               /\ \E j \in 1..Len(report[key].invoice_details[b]) :
                      report[key].invoice_details[b][j] =
                          ItemDetail(item, item.is_negative, item.item_type)

\* C13: a connection whose fetch or processing raised has a failure record
\* naming it in failed_connections, every connection that did not raise has
\* its items in the ledger, and a run that returns has gone through every
\* connection of the list, whatever happened to the ones before.
C13_FailureIsolated ==
    /\ \A k \in 1..Len(outcomes) :
          IF outcomes[k].raised
          THEN \E j \in 1..Len(failed_connections) :
                   failed_connections[j].tenant_name = outcomes[k].tenant
          ELSE ContributedBy(outcomes[k])
    /\ rpc = "returned" =>
          /\ Len(outcomes) = Len(connection_data_list)
          /\ \A k \in 1..Len(outcomes) :
                 outcomes[k].tenant = connection_data_list[k]

\* a returned run whose first connection raised and whose second one
\* contributed items
C13_Witness ==
    /\ rpc = "returned"
    /\ Len(outcomes) = 2
    /\ outcomes[1].raised
    /\ ~outcomes[2].raised
    /\ outcomes[2].items # <<>>

\* C14: every completed generation returns the ledger entries, the failure
\* descriptors and the summary counters (items processed, per-bucket
\* totals), whatever the format.
C14_AllOutputsReturned ==
    rpc = "returned" =>
        /\ "data" \in DOMAIN response_data
        /\ "failed_connections" \in DOMAIN response_data
        /\ "total_invoices" \in DOMAIN response_data
        /\ "summary" \in DOMAIN response_data

\* C15: once past the parsing of a report_date text that strptime rejects,
\* the call has raised the validation error (400) and has looked up,
\* fetched and processed nothing: no connection, no failure record, no
\* ledger entry.
C15_InvalidDateRaisesFirst ==
    (/\ rpc # "parse"
     /\ report_date_arg.given
     /\ Strptime(report_date_arg.chars) = NoDate)
    => /\ rpc = "raised"
       /\ response_data = [status_code |-> 400]
       /\ connection_data_list = <<>>
       /\ failed_connections = <<>>
       /\ outcomes = <<>>
       /\ report = EmptyReport

-----------------------------------------------------------------------------
(* The classifier against the names of the ledger, checked under SpecBucket *)

\* C21: whatever the periods, period_of, period type and dates, the bucket
\* calculate_aging_bucket returns is one of the names generate_bucket_names
\* gives for the same periods and period type, so the ledger entry has it.
C21_BucketIsNamed ==
    Classified =>
        bucket \in Range(generate_bucket_names(periods, period_type,
                                               show_current))

-----------------------------------------------------------------------------
(* Further properties of the Set-A filter, checked under SpecUnpaid *)

\* C22: in a past-date report a Set-A invoice issued on or before the
\* report date that still has amount_due > 0 is included with positive
\* sign, whatever its due date, payment date and amount_paid are.
C22_OwedIsIncluded ==
    (DecidedSetA /\ invoice.amount_due > 0) =>
        (decision.include /\ ~decision.is_negative)

-----------------------------------------------------------------------------
(* Further properties of the Set-C filter, checked under SpecEarlyPaid *)

\* what the pass decides for the examined invoice from its own fields and
\* the report date alone: no payment found where it has no payment record
OwnDecision ==
    LET own == EarlyPass(invoice, "False", report_date)
    IN  IF own.include THEN Included("setC", own.neg, own.amount)
        ELSE Excluded("setC")

\* C23: the decision of the Set-C filter for an invoice, and its amount, are
\* those its own fields and the report date give, whichever invoices were
\* examined before it, and examining an invoice never raises.
C23_OwnFieldsOnly ==
    (/\ ~is_future_date
     /\ pc \in {"early", "raised"}
     /\ examined > 0
     /\ invoice.date # NoDate
     /\ DateLT(report_date, invoice.date))
    => /\ pc # "raised"
       /\ decision = OwnDecision

-----------------------------------------------------------------------------
(* Rule 6 of the Set-A filter, checked under SpecUnpaid *)

\* C24 as stated: an invoice decided by rule 6 is positive, for the sum of
\* the payments dated after the report date plus amount_due when there is
\* such a payment, else for the total when amount_due = 0 and for amount_due
\* when amount_due > 0.
C24_Original ==
    (DecidedSetA /\ decision.rule = "6") =>
        /\ decision.include
        /\ ~decision.is_negative
        /\ decision.report_amount = TblRule6Stated

\* C24 as amended: the same, the sum being used only when it is positive;
\* a sum of 0 gives the total when amount_due = 0.
C24_RuleSixAmount ==
    (DecidedSetA /\ decision.rule = "6") =>
        /\ decision.include
        /\ ~decision.is_negative
        /\ decision.report_amount = TblRule6Positive

\* rule 6 on a partially paid invoice with a payment after the report date
C24_Witness ==
    /\ DecidedSetA
    /\ decision.rule = "6"
    /\ TblPostPayments # {}
    /\ TblSum(TblPostPayments) > 0
    /\ invoice.amount_due > 0
    /\ decision.report_amount = TblSum(TblPostPayments) + invoice.amount_due

-----------------------------------------------------------------------------
(* Further properties of the report generation, checked under SpecReport *)

\* the ledger keys that belong to a connection
KeysOf(rep, conn) == {key \in DOMAIN rep : rep[key].company = conn}

\* C25: a connection whose processing raised has nothing in the final
\* report: no ledger entry, hence no bucket amount and no listed item.
C25_FailedLeavesNothing ==
    rpc = "returned" =>
        \A k \in 1..Len(outcomes) :
            outcomes[k].raised => KeysOf(report, outcomes[k].tenant) = {}

-----------------------------------------------------------------------------
(* service.py: an invoice that calls 1 and 2 both return.  Call 1 asks for
   Date <= report_date, call 2 for Status == "PAID" && DueDate > report_date,
   call 3 for Date > report_date: only calls 1 and 2 can overlap. *)

\* Set-A invoices, among them paid ones due after the report date
OverlapCandidates(date_for_xero) ==
    {Invoice(StatusOf(adue), issued, due, fpod, <<>>, adue, apaid, upd, <<>>) :
        issued \in {PrevMonth, Before},
        due \in {date_for_xero, After, NextMonth},
        fpod \in {NoDate, date_for_xero, After},
        adue \in 0..MaxAmt,
        apaid \in 1..MaxAmt,
        upd \in {date_for_xero, After}}

\* what call 2 returns of the invoices call 1 returned
AlsoInSetB(invs, rd) ==
    {inv \in Range(invs) :
        inv.status = "PAID" /\ inv.due_date # NoDate /\ DateLT(rd, inv.due_date)}

InitOverlap ==
    /\ report_date = ReconDate
    /\ is_future_date = FALSE
    /\ periods \in 1..MaxPeriods
    /\ period_of = 1
    /\ period_type \in PeriodTypes
    /\ show_current = TRUE
    /\ item_date = NoDate
    /\ bucket = NoBucket
    /\ bucket_names = generate_bucket_names(periods, period_type, show_current)
    /\ pc = "unpaid"
    /\ examined = 0
    /\ unpaid_invoices = <<>>
    /\ invoice = NoRecord
    /\ decision = NoRecord
    /\ all_invoices = <<>>
    /\ has_payments_before_report_date = Unbound
    /\ filtered_credit_notes = <<>>
    /\ IdleLedger
    /\ IdleFetch
    /\ IdleGen

\* the loop over paid_invoices, the list holding the invoice once
LoopPaidOverlap ==
    /\ examined < 1
    /\ LoopPaid(AlsoInSetB(unpaid_invoices, report_date))

NextOverlap ==
    \/ LoopUnpaid(OverlapCandidates(report_date), 1)
    \/ EndUnpaid
    \/ LoopPaidOverlap
    \/ EndPaid
    \/ Return
    \/ ProcessInvoices

SpecOverlap == InitOverlap /\ [][NextOverlap]_vars

\* the number of items the ledger lists, over all entries and buckets
RECURSIVE CountListed(_, _)
CountListed(rep, cells) ==
    IF cells = {} THEN 0
    ELSE LET c == CHOOSE x \in cells : TRUE
         IN  Len(rep[c[1]].invoice_details[c[2]])
               + CountListed(rep, cells \ {c})

LedgerCells(rep) ==
    {<<key, n>> : key \in DOMAIN rep, n \in Range(bucket_names)}

\* the invoice of Set A was examined again in Set B and the list aggregated
OverlapAggregated ==
    /\ apc = "done"
    /\ Len(unpaid_invoices) = 1
    /\ decision.rule = "setB"
    /\ invoice = unpaid_invoices[1]

\* C26: an invoice returned in Set A and in Set B changes the bucket amounts
\* of the ledger at most once: at most one item is listed for it and the
\* amounts sum to at most one contribution of the invoice.
C26_OverlapCountsOnce ==
    OverlapAggregated =>
        /\ CountListed(report, LedgerCells(report)) <= 1
        /\ \A key \in DOMAIN report : \A n \in Range(bucket_names) :
               report[key].amounts[n] <= invoice.total

\* the invoice passed both filters and reached the ledger once
C26_Witness ==
    /\ OverlapAggregated
    /\ Len(all_invoices) = 2
    /\ CountListed(report, LedgerCells(report)) = 1

-----------------------------------------------------------------------------
(* Termination of the paged fetches.  The API may refuse any request, any
   number of times.  Every page after last_page is empty, so the model keeps
   the page number exactly up to PageCap and alternates between PageCap and
   PageCap + 1 beyond it: a loop that goes on requesting pages is then a
   cycle.  The loop itself always takes its next pass (weak fairness of the
   pass); what the API answers is not constrained. *)

PageCap == MaxPages + 1

NextPageNumber(p) == IF p > PageCap THEN PageCap ELSE p + 1

\* one pass of the loop whose request raises, however many raised before
RequestRaises ==
    /\ fpc = "request"
    /\ failed_pages' = failed_pages \cup {page}
    /\ LET handling == OnRequestError(fetch_kind)
       IN  /\ fpc' = CASE handling = "next_page" -> "request"
                       [] handling = "break" -> "returned"
                       [] OTHER -> "raised"
           /\ page' = IF handling = "next_page" THEN NextPageNumber(page)
                      ELSE page
    /\ UNCHANGED <<fetch_kind, last_page, fetched>>
    /\ UNCHANGED <<report_date, is_future_date>>
    /\ UNCHANGED bucketVars
    /\ UNCHANGED reconVars
    /\ UNCHANGED ledgerVars
    /\ UNCHANGED genVars

NextFetchLive == RequestPage \/ RequestRaises

SpecFetchLive ==
    InitPagedFetch /\ [][NextFetchLive]_vars /\ WF_vars(NextFetchLive)

\* C27: the Set-A fetch ends, by returning or by raising, whatever the API
\* does, every request raising included.
C27_SetAFetchEnds ==
    (fetch_kind = "unpaid") => <>(fpc \in {"returned", "raised"})

-----------------------------------------------------------------------------
(* The report generation without a report date, checked under SpecReport *)

\* C28: called without a report_date, the generation takes today's date as
\* the report date and goes on through the connections to a returned
\* report: it raises only when there is no connection to report on (404).
C28_NoDateUsesToday ==
    (~report_date_arg.given /\ rpc # "parse") =>
        /\ report_date = Today
        /\ rpc = "raised" => response_data = [status_code |-> 404]

\* the connections that were processed without a failure record
Succeeded == {k \in 1..Len(outcomes) : ~outcomes[k].raised}

\* the connections the caller asked for: those found and those not found
Requested ==
    Len(connection_data_list)
      + Cardinality({j \in 1..Len(failed_connections) :
                        failed_connections[j] = NotFound})

\* C29: in the JSON response, successful_connections is the number of
\* connections processed without a failure record, failed_connections_count
\* the number of failure records, total_connections_attempted their sum and
\* the number of connections requested.
C29_SummaryCounts ==
    (rpc = "returned" /\ format # 1) =>
        LET cs == response_data.connection_summary
        IN  /\ cs.successful_connections = Cardinality(Succeeded)
            /\ cs.failed_connections_count = Len(failed_connections)
            /\ cs.total_connections_attempted =
                   cs.successful_connections + cs.failed_connections_count
            /\ cs.total_connections_attempted = Requested

-----------------------------------------------------------------------------
(* The table response, checked under SpecReport *)

\* the sum of the bucket columns a row shows
RECURSIVE SumCells(_, _)
SumCells(cells, S) ==
    IF S = {} THEN 0
    ELSE LET n == CHOOSE x \in S : TRUE
         IN  cells[n] + SumCells(cells, S \ {n})

\* the sum of the Totals of a set of rows
RECURSIVE SumRowTotals(_, _)
SumRowTotals(rows, keys) ==
    IF keys = {} THEN 0
    ELSE LET k == CHOOSE x \in keys : TRUE
         IN  rows[k].Total + SumRowTotals(rows, keys \ {k})

=============================================================================
